---- MODULE Spec2Model ----
(***************************************************************************)
(* Web forum backend: the authentication core (token issue, validation,    *)
(* revocation), the reaction ledger, category memberships and the          *)
(* notification read/unread state, modelled from the Go handlers, the      *)
(* repositories' SQL statements and the schema of 001_init.sql.            *)
(*                                                                         *)
(* Time is counted in ticks.  One tick is the resolution of the store's    *)
(* timestamps; a whole second is TicksPerSecond ticks.  The 24 hour token  *)
(* lifetime is scaled down to TokenLifetimeSeconds whole seconds.          *)
(***************************************************************************)
EXTENDS Integers, Sequences, FiniteSets, TLC

VARIABLES
    now,        \* the clock read by time.Now(), in ticks
    users,      \* users table: rows [user_id, username, email, password]
    userSeq,    \* users_user_id_seq: the last user_id handed out
    tokens,     \* tokens table: rows [token_id, user_id, token, expires_at]
    tokenSeq,   \* tokens_token_id_seq: the last token_id handed out
    issued,     \* history: every createToken call [tok, user, at, row_expires_at]
    revoked,    \* history: token strings whose row a logout deleted
    orphaned,   \* history: token strings whose row an account deletion cascaded away
    authResp,   \* the last response of the auth endpoints
    renaming,   \* the PUT /user/username request between its two statements
    posts,              \* posts table: rows [post_id, owner_id, category_id, headline, status, created_at, updated_at]
    comments,           \* comments table: rows [comment_id, post_id, owner_id, parent_comment_id, text, status, created_at, updated_at]
    reactions,          \* reactions table: rows [reaction_id, post_id, owner_id, reaction_type_id]
    reactionSeq,        \* reactions_reaction_id_seq
    commentReactions,   \* comment_reactions table: rows [comment_reaction_id, comment_id, owner_id, reaction_type_id]
    commentReactionSeq, \* comment_reactions_comment_reaction_id_seq
    reactResp,          \* the last response of the react endpoints, with what the store held before
    postSeq,            \* posts_post_id_seq
    commentSeq,         \* comments_comment_id_seq
    contentResp,        \* the last response of the post and comment endpoints, with the row found before
    updateWorkers,      \* comment updates served concurrently: each request's position and locals
    reactWorkers,       \* react requests served concurrently: each request's position and locals
    categories,         \* categories table: rows [category_id, category]
    memberships,        \* memberships table: rows [membership_id, category_id, user_id, joined_date]
    membershipSeq,      \* memberships_membership_id_seq
    subscribers,        \* subscribe requests served concurrently: each request's position and locals
    notifications,      \* notifications table: rows [notification_id, owner_id, actor_id, status]
    notificationSeq,    \* notifications_notification_id_seq
    notifResp,          \* the last response of the notification endpoints, with the status held before
    markedRead          \* history: the notification ids a MarkRead has updated

authVars == <<now, users, userSeq, tokens, tokenSeq, issued, revoked, orphaned, authResp,
              renaming>>

reactVars == <<posts, comments, reactions, reactionSeq, commentReactions,
               commentReactionSeq, reactResp>>

memberVars == <<categories, memberships, membershipSeq, subscribers>>

notifVars == <<notifications, notificationSeq, notifResp, markedRead>>

contentVars == <<postSeq, commentSeq, contentResp, updateWorkers>>

vars == <<authVars, reactVars, reactWorkers, memberVars, notifVars, contentVars>>

-----------------------------------------------------------------------------
(* Bounds of the model *)

TicksPerSecond == 2
TokenLifetimeSeconds == 1
FirstUserID == 10
MaxUsers == 2
MaxIssued == 1

MaxActors == 2
MaxPosts == 2
MaxComments == 1
MaxReactionTypes == 2
MaxUpserts == 2

MaxCategories == 2

MaxNotifications == 2

MaxCreates == 1

MaxSessions == 2
MaxRegistrations == 2

TokenLifetime == TokenLifetimeSeconds * TicksPerSecond
MaxTime == TokenLifetime + TicksPerSecond + 1

-----------------------------------------------------------------------------
(* strconv: decimal text of an int64 and back *)

Digits == <<"0", "1", "2", "3", "4", "5", "6", "7", "8", "9">>

RECURSIVE FormatNat(_)
FormatNat(n) ==
    IF n < 10 THEN <<Digits[n + 1]>>
    ELSE Append(FormatNat(n \div 10), Digits[(n % 10) + 1])

FormatIntLastDigit(n) == <<Digits[((IF n < 0 THEN -n ELSE n) % 10) + 1]>>

FormatInt(n) == IF n < 0 THEN <<"-">> \o FormatNat(-n) ELSE FormatNat(n)

DigitValue(c) == (CHOOSE i \in 1..10 : Digits[i] = c) - 1

IsDigit(c) == \E i \in 1..10 : Digits[i] = c

RECURSIVE ParseNat(_)
ParseNat(s) ==
    IF Len(s) = 0 THEN 0
    ELSE 10 * ParseNat(SubSeq(s, 1, Len(s) - 1)) + DigitValue(s[Len(s)])

ParseInt(s) ==
    LET neg  == Len(s) > 0 /\ s[1] = "-"
        plus == Len(s) > 0 /\ s[1] = "+"
        body == IF neg \/ plus THEN Tail(s) ELSE s
    IN  IF Len(body) = 0 \/ \E i \in 1..Len(body) : ~IsDigit(body[i])
        THEN [ok |-> FALSE, val |-> 0]
        ELSE [ok |-> TRUE, val |-> IF neg THEN -ParseNat(body) ELSE ParseNat(body)]

-----------------------------------------------------------------------------
(* Bearer tokens.  A token string is modelled by what it encodes: the       *)
(* header's algorithm, the key that signed it and the registered claims.    *)
(* Two token strings are equal exactly when all of these are equal.         *)

JWTSecret == "jwtSecret"

HMACMethods == {"HS256", "HS384", "HS512"}

GarbageToken ==
    [form |-> "garbage", alg |-> "", key |-> "", sub |-> <<>>,
     hasExp |-> FALSE, exp |-> 0, iat |-> 0, jti |-> 0]

\* jwt.NewNumericDate truncates to the library's TimePrecision, one second.
NewNumericDate(t) == (t \div TicksPerSecond) * TicksPerSecond

\* token.SignedString over jwt.NewWithClaims(jwt.SigningMethodHS256, claims)
SignedString(claims, secret) ==
    [form |-> "jwt", alg |-> "HS256", key |-> secret, sub |-> claims.sub,
     hasExp |-> TRUE, exp |-> claims.exp, iat |-> claims.iat, jti |-> claims.jti]

\* TokenRepository.Create: INSERT INTO tokens ... RETURNING token_id, expires_at.
\* tokens.token is UNIQUE: a second row with the same string is an error.
TokenCreate(rows, seq, t) ==
    IF \E r \in rows : r.token = t.token
    THEN [err |-> TRUE, rows |-> rows]
    ELSE [err |-> FALSE,
          rows |-> rows \cup {[token_id |-> seq + 1, user_id |-> t.user_id,
                               token |-> t.token, expires_at |-> t.expires_at]}]

\* TokenRepository.GetByToken: SELECT ... WHERE token = $1 (the set of rows found)
GetByToken(rows, token) == {r \in rows : r.token = token}

\* a DELETE that matches no row and does not look at RowsAffected
DeleteByIDNoMatch(rows, id) == [err |-> FALSE, rows |-> rows]

\* a DELETE FROM tokens with no WHERE clause
DeleteByIDEveryRow(rows, id) == [err |-> FALSE, rows |-> {}]

\* TokenRepository.DeleteByID: DELETE FROM tokens WHERE token_id = $1
DeleteByID(rows, id) ==
    [err |-> ~(\E r \in rows : r.token_id = id),
     rows |-> {r \in rows : r.token_id # id}]

\* TokenRepository.PurgeExpired: DELETE FROM tokens WHERE expires_at < $1
PurgeExpired(rows, cutoff) == {r \in rows : ~(r.expires_at < cutoff)}

\* createToken: the claims, the signed string and the row it persists.
\* jti stands for the 16 random bytes, fresh at every call.
createTokenRowExpiresAtIssue(userID, t, jti, secret) ==
    LET expiresAt == t + TokenLifetime
        claims == [sub |-> FormatInt(userID), exp |-> NewNumericDate(expiresAt),
                   iat |-> NewNumericDate(t), jti |-> jti]
        signed == SignedString(claims, secret)
    IN  [signed |-> signed, expiresAt |-> expiresAt,
         row |-> [user_id |-> userID, token |-> signed, expires_at |-> t]]

createToken(userID, t, jti, secret) ==
    LET expiresAt == t + TokenLifetime
        claims == [sub |-> FormatInt(userID), exp |-> NewNumericDate(expiresAt),
                   iat |-> NewNumericDate(t), jti |-> jti]
        signed == SignedString(claims, secret)
    IN  [signed |-> signed, expiresAt |-> expiresAt,
         row |-> [user_id |-> userID, token |-> signed, expires_at |-> expiresAt]]

\* jwt.ParseWithClaims with the middleware's key function: the string must be
\* a well-formed JWT, its method of the HMAC family, its signature made with
\* the secret, and its exp claim, when present, strictly after the clock.
ParseWithClaims(tok, secret, t) ==
    /\ tok.form = "jwt"
    /\ tok.alg \in HMACMethods
    /\ tok.key = secret
    /\ (tok.hasExp => t < tok.exp)

Header(scheme, tok) == [present |-> TRUE, scheme |-> scheme, token |-> tok]

NoHeader == [present |-> FALSE, scheme |-> "", token |-> GarbageToken]

Reject(status, message) ==
    [pass |-> FALSE, status |-> status, message |-> message, userID |-> 0]

\* AuthMiddleware without the store lookup: the signature and claims decide alone.
AuthMiddlewareStateless(h, t, rows) ==
    IF ~h.present THEN Reject(401, "missing authorization header")
    ELSE IF h.scheme # "Bearer" THEN Reject(401, "invalid authorization format")
    ELSE IF ~ParseWithClaims(h.token, JWTSecret, t) THEN Reject(401, "invalid token")
    ELSE IF h.token.hasExp /\ t > h.token.exp THEN Reject(401, "token expired")
    ELSE LET p == ParseInt(h.token.sub) IN
         IF ~p.ok \/ p.val = 0 THEN Reject(401, "invalid token subject")
         ELSE [pass |-> TRUE, status |-> 200, message |-> "", userID |-> p.val]

\* AuthMiddleware: the response it writes, or the user id it puts in the context.
AuthMiddleware(h, t, rows) ==
    IF ~h.present THEN Reject(401, "missing authorization header")
    ELSE IF h.scheme # "Bearer" THEN Reject(401, "invalid authorization format")
    ELSE IF ~ParseWithClaims(h.token, JWTSecret, t) THEN Reject(401, "invalid token")
    ELSE IF h.token.hasExp /\ t > h.token.exp THEN Reject(401, "token expired")
    ELSE LET p == ParseInt(h.token.sub) IN
         IF ~p.ok \/ p.val = 0 THEN Reject(401, "invalid token subject")
         ELSE LET found == GetByToken(rows, h.token) IN
              IF found = {} THEN Reject(401, "invalid token")
              ELSE IF \E r \in found : t > r.expires_at THEN Reject(401, "token expired")
              ELSE [pass |-> TRUE, status |-> 200, message |-> "", userID |-> p.val]

-----------------------------------------------------------------------------
(* Users *)

\* bcrypt.GenerateFromPassword / bcrypt.CompareHashAndPassword
GenerateFromPassword(pw) == <<"bcrypt", pw>>

CompareHashAndPassword(hash, pw) == hash = <<"bcrypt", pw>>

\* isValidEmail: an '@' is seen, and a '.' at or after it
isValidEmail(email) ==
    \E i \in 1..Len(email) :
        /\ email[i] = "@"
        /\ \E j \in i..Len(email) : email[j] = "."

\* an INSERT into a users table with no UNIQUE constraints
UserCreateNoUnique(us, seq, u) ==
    [err |-> "", id |-> seq + 1,
     users |-> us \cup {[user_id |-> seq + 1, username |-> u.username,
                          email |-> u.email, password |-> u.password]}]

\* UserRepository.Create: INSERT INTO users ... RETURNING user_id; username and
\* email are UNIQUE.  The sequence value is consumed whether or not the row is kept.
UserCreate(us, seq, u) ==
    IF \E x \in us : x.username = u.username \/ x.email = u.email
    THEN [err |-> "duplicate", users |-> us, id |-> 0]
    ELSE [err |-> "", id |-> seq + 1,
          users |-> us \cup {[user_id |-> seq + 1, username |-> u.username,
                               email |-> u.email, password |-> u.password]}]

\* UserRepository.GetByEmail / GetByUsername (the set of rows found)
GetByEmail(us, email) == {x \in us : x.email = email}

GetByUsername(us, username) == {x \in us : x.username = username}

\* UserRepository.Delete that leaves the user's token rows in place
UserDeleteKeepsTokens(us, rows, id) ==
    [err |-> ~(\E x \in us : x.user_id = id),
     users |-> {x \in us : x.user_id # id},
     rows |-> rows]

\* UserRepository.Delete with the schema's ON DELETE CASCADE on tokens.user_id
UserDelete(us, rows, id) ==
    [err |-> ~(\E x \in us : x.user_id = id),
     users |-> {x \in us : x.user_id # id},
     rows |-> {r \in rows : r.user_id # id}]

\* ON DELETE CASCADE of the owner_id, actor_id and user_id columns that refer to
\* users, and through the posts and comments that go, of post_id and comment_id;
\* parent_comment_id is ON DELETE SET NULL.  What the tables hold once user id
\* is deleted.
OwnedRowsDeleted(id, ps, cs, rs, crs, ms, ns) ==
    LET p == {x \in ps : x.owner_id # id}
        pk == {x.post_id : x \in p}
        c == {x \in cs : x.owner_id # id /\ x.post_id \in pk}
        ck == {x.comment_id : x \in c}
    IN  [posts |-> p,
         comments |-> {IF x.parent_comment_id \in ck \cup {0} THEN x
                       ELSE [x EXCEPT !.parent_comment_id = 0] : x \in c},
         reactions |-> {x \in rs : x.owner_id # id /\ x.post_id \in pk},
         commentReactions |-> {x \in crs : x.owner_id # id /\ x.comment_id \in ck},
         memberships |-> {x \in ms : x.user_id # id},
         notifications |-> {x \in ns : x.owner_id # id /\ x.actor_id # id}]

-----------------------------------------------------------------------------
(* Requests the model sends *)

Usernames == {"ann", "bob"}

GoodPassword == <<"p", "a", "s", "s", "w", "o", "r", "d">>

OtherPassword == <<"l", "e", "t", "m", "e", "i", "n", "1">>

ShortPassword == <<"p", "a", "s", "s">>

AnnEmail == <<"a", "@", "x", ".", "i", "o">>

BobEmail == <<"b", "@", "x", ".", "i", "o">>

RegisterRequests ==
    {[Username |-> "ann", Email |-> AnnEmail, Password |-> GoodPassword],
     [Username |-> "bob", Email |-> BobEmail, Password |-> GoodPassword],
     [Username |-> "bob", Email |-> AnnEmail, Password |-> GoodPassword],
     [Username |-> "", Email |-> AnnEmail, Password |-> GoodPassword],
     [Username |-> "ann", Email |-> <<"a", ".", "b", "@", "x">>, Password |-> GoodPassword],
     [Username |-> "ann", Email |-> AnnEmail, Password |-> ShortPassword]}

LoginRequests ==
    [Username : Usernames, Email : {<<>>}, Password : {GoodPassword, OtherPassword}]
    \cup [Username : {""}, Email : {AnnEmail, BobEmail}, Password : {GoodPassword}]
    \cup {[Username |-> "", Email |-> <<>>, Password |-> GoodPassword],
          [Username |-> "ann", Email |-> <<>>, Password |-> <<>>]}

IssuedTokens == {e.tok : e \in issued}

\* Strings an attacker can build from a token it has seen.  Those that keep
\* key = JWTSecret stand for strings signed by someone who holds the secret
\* but which createToken never stored.
Forged(t) ==
    {[t EXCEPT !.key = "attackerKey"],
     [t EXCEPT !.alg = "none", !.key = ""],
     [t EXCEPT !.alg = "RS256"],
     [t EXCEPT !.jti = 0],
     [t EXCEPT !.sub = <<"0">>],
     [t EXCEPT !.sub = <<"x">>],
     [t EXCEPT !.hasExp = FALSE, !.exp = 0],
     [t EXCEPT !.exp = t.exp + TokenLifetime]}

PresentableTokens ==
    IssuedTokens \cup UNION {Forged(t) : t \in IssuedTokens} \cup {GarbageToken}

AuthHeaders ==
    {NoHeader} \cup {Header("Bearer", t) : t \in PresentableTokens}
               \cup {Header("Basic", t) : t \in IssuedTokens}

\* UserResponse as HandleGetAccount fills it: the fields of the users row
UserResponse(user) ==
    [user_id |-> user.user_id, username |-> user.username, email |-> user.email,
     password |-> user.password]

\* a response that carries no UserResponse
NoBody == [user_id |-> 0, username |-> "", email |-> <<>>, password |-> <<>>]

\* A response, with the request it answers: the jti of the token the request
\* carried (or the response returns) and whether that was an issued string.
Resp(op, status, message, h, userID) ==
    [op |-> op, status |-> status, message |-> message, userID |-> userID,
     jti |-> h.token.jti,
     genuine |-> h.present /\ h.scheme = "Bearer" /\ h.token \in IssuedTokens',
     body |-> NoBody]

NoResp ==
    [op |-> "none", status |-> 0, message |-> "", userID |-> 0, jti |-> 0,
     genuine |-> FALSE, body |-> NoBody]

-----------------------------------------------------------------------------
(* Actions of the auth endpoints *)

\* no PUT /user/username request is between its statements
NoRename == [pc |-> "idle", h |-> NoHeader, userID |-> 0, username |-> ""]

InitAuth ==
    /\ renaming = NoRename
    /\ now = 1
    /\ users = {}
    /\ userSeq = FirstUserID - 1
    /\ tokens = {}
    /\ tokenSeq = 0
    /\ issued = {}
    /\ revoked = {}
    /\ orphaned = {}
    /\ authResp = NoResp

\* time passes
Tick ==
    /\ now < MaxTime
    /\ now' = now + 1
    /\ UNCHANGED <<users, userSeq, tokens, tokenSeq, issued, revoked, orphaned, authResp,
                   renaming>>

\* the part of HandleRegister and HandleLogin from createToken on; tokenStored
\* says whether the INSERT into tokens is carried out (the request's context is
\* not cancelled and the connection holds)
IssueForUnder(op, uid, us, tokenStored) ==
    LET ct == createToken(uid, now, Cardinality(issued) + 1, JWTSecret)
        cr == IF tokenStored
              THEN TokenCreate(tokens, tokenSeq, ct.row)
              ELSE [err |-> TRUE, rows |-> tokens]
    IN  /\ users' = us
        /\ tokenSeq' = IF tokenStored THEN tokenSeq + 1 ELSE tokenSeq
        /\ tokens' = cr.rows
        /\ UNCHANGED <<now, revoked, orphaned, renaming>>
        /\ IF cr.err
           THEN /\ UNCHANGED issued
                /\ authResp' = Resp(op, 500, "failed to create token", NoHeader, 0)
           ELSE /\ issued' = issued \cup {[tok |-> ct.signed, user |-> uid, at |-> now,
                                           row_expires_at |-> ct.row.expires_at]}
                /\ authResp' = Resp(op, 200, "", Header("Bearer", ct.signed), uid)

\* the same when the storage carries out the INSERT
IssueFor(op, uid, us) == IssueForUnder(op, uid, us, TRUE)

NoIssue(op, status, message) ==
    /\ UNCHANGED <<now, users, tokens, tokenSeq, issued, revoked, orphaned, renaming>>
    /\ authResp' = Resp(op, status, message, NoHeader, 0)

\* POST /auth/register; tokenStored as in IssueForUnder
HandleRegisterUnder(req, tokenStored) ==
    /\ IF req.Username = "" \/ req.Email = <<>> \/ req.Password = <<>>
       THEN NoIssue("register", 422, "username, email, and password are required")
            /\ UNCHANGED userSeq
       ELSE IF ~isValidEmail(req.Email)
       THEN NoIssue("register", 422, "invalid email format") /\ UNCHANGED userSeq
       ELSE IF Len(req.Password) < 8
       THEN NoIssue("register", 422, "password must be at least 8 characters")
            /\ UNCHANGED userSeq
       ELSE LET uc == UserCreate(users, userSeq,
                                 [username |-> req.Username, email |-> req.Email,
                                  password |-> GenerateFromPassword(req.Password)])
            IN  /\ userSeq' = userSeq + 1
                /\ IF uc.err # ""
                   THEN NoIssue("register", 409, "email or username already exists")
                   ELSE IssueForUnder("register", uc.id, uc.users, tokenStored)

\* POST /auth/register while the storage carries out every statement
HandleRegister(req) == HandleRegisterUnder(req, TRUE)

\* HandleLogin answering an identifier no user has with its own kind and message
HandleLoginNamesUnknown(req) ==
    /\ UNCHANGED userSeq
    /\ IF req.Password = <<>>
       THEN NoIssue("login", 422, "password is required")
       ELSE IF req.Email = <<>> /\ req.Username = ""
       THEN NoIssue("login", 422, "email or username is required")
       ELSE LET found == IF req.Email # <<>> THEN GetByEmail(users, req.Email)
                         ELSE GetByUsername(users, req.Username)
            IN  IF found = {}
                THEN NoIssue("login", 404, "user not found")
                ELSE LET user == CHOOSE x \in found : TRUE IN
                     IF ~CompareHashAndPassword(user.password, req.Password)
                     THEN NoIssue("login", 401, "invalid credentials")
                     ELSE IssueFor("login", user.user_id, users)

\* POST /auth/login
HandleLogin(req) ==
    /\ UNCHANGED userSeq
    /\ IF req.Password = <<>>
       THEN NoIssue("login", 422, "password is required")
       ELSE IF req.Email = <<>> /\ req.Username = ""
       THEN NoIssue("login", 422, "email or username is required")
       ELSE LET found == IF req.Email # <<>> THEN GetByEmail(users, req.Email)
                         ELSE GetByUsername(users, req.Username)
            IN  IF found = {}
                THEN NoIssue("login", 401, "invalid credentials")
                ELSE LET user == CHOOSE x \in found : TRUE IN
                     IF ~CompareHashAndPassword(user.password, req.Password)
                     THEN NoIssue("login", 401, "invalid credentials")
                     ELSE IssueFor("login", user.user_id, users)

\* GET /auth/verify behind AuthMiddleware
HandleVerifyAuth(h) ==
    LET m == AuthMiddleware(h, now, tokens) IN
    /\ UNCHANGED <<now, users, userSeq, tokens, tokenSeq, issued, revoked, orphaned,
                   renaming>>
    /\ authResp' = IF m.pass THEN Resp("verify", 200, "authenticated", h, m.userID)
                   ELSE Resp("verify", m.status, m.message, h, 0)

\* POST /auth/logout behind AuthMiddleware
HandleLogOut(h) ==
    LET m == AuthMiddleware(h, now, tokens)
        found == GetByToken(tokens, h.token)
    IN
    /\ UNCHANGED <<now, users, userSeq, tokenSeq, issued, orphaned, renaming>>
    /\ IF ~m.pass
       THEN /\ authResp' = Resp("logout", m.status, m.message, h, 0)
            /\ UNCHANGED <<tokens, revoked>>
       ELSE IF found = {}
       THEN /\ authResp' = Resp("logout", 401, "invalid token", h, m.userID)
            /\ UNCHANGED <<tokens, revoked>>
       ELSE LET t == CHOOSE r \in found : TRUE
                d == DeleteByID(tokens, t.token_id)
            IN  IF d.err
                THEN /\ authResp' = Resp("logout", 500, "failed to delete token", h, m.userID)
                     /\ UNCHANGED <<tokens, revoked>>
                ELSE /\ authResp' = Resp("logout", 200, "Logout successfully!", h, m.userID)
                     /\ tokens' = d.rows
                     /\ revoked' = revoked \cup {h.token}

\* DELETE /user behind AuthMiddleware; the DELETE takes the user's rows in the
\* other tables with it
HandleDeleteAccount(h) ==
    LET m == AuthMiddleware(h, now, tokens)
        d == UserDelete(users, tokens, m.userID)
        o == OwnedRowsDeleted(m.userID, posts, comments, reactions, commentReactions,
                              memberships, notifications)
    IN
    /\ UNCHANGED <<now, userSeq, tokenSeq, issued, revoked, renaming>>
    /\ IF ~m.pass
       THEN /\ authResp' = Resp("deleteAccount", m.status, m.message, h, 0)
            /\ UNCHANGED <<users, tokens, orphaned, posts, comments, reactions,
                           commentReactions, memberships, notifications>>
       ELSE IF d.err
       THEN /\ authResp' = Resp("deleteAccount", 404, "user not found", h, m.userID)
            /\ UNCHANGED <<users, tokens, orphaned, posts, comments, reactions,
                           commentReactions, memberships, notifications>>
       ELSE /\ authResp' = Resp("deleteAccount", 200, "Account delete successfully!", h, m.userID)
            /\ users' = d.users
            /\ tokens' = d.rows
            /\ orphaned' = orphaned \cup {r.token : r \in tokens \ d.rows}
            /\ posts' = o.posts
            /\ comments' = o.comments
            /\ reactions' = o.reactions
            /\ commentReactions' = o.commentReactions
            /\ memberships' = o.memberships
            /\ notifications' = o.notifications

\* the external batch job: TokenRepository.PurgeExpired with a cutoff up to now
PurgeExpiredTokens(cutoff) ==
    /\ tokens' = PurgeExpired(tokens, cutoff)
    /\ tokens' # tokens
    /\ UNCHANGED <<now, users, userSeq, tokenSeq, issued, revoked, orphaned, authResp,
                   renaming>>

\* the client has read the response; the model sends its next request after that
AuthResponseRead ==
    /\ authResp # NoResp
    /\ authResp' = NoResp
    /\ UNCHANGED <<now, users, userSeq, tokens, tokenSeq, issued, revoked, orphaned,
                   renaming>>

\* the auth endpoints take the next request; the other tables are not touched
AuthIdle == authResp = NoResp /\ UNCHANGED <<reactVars, reactWorkers, memberVars, notifVars, contentVars>>

\* DELETE /user takes the next request; it touches the rows of every table that
\* refers to users
DeleteAccountIdle ==
    /\ authResp = NoResp
    /\ UNCHANGED <<reactionSeq, commentReactionSeq, reactResp, reactWorkers, categories,
                   membershipSeq, subscribers, notificationSeq, notifResp, markedRead,
                   contentVars>>

\* the requests the model still sends: user ids and tokens are handed out up to a bound
UsersLeft == userSeq < FirstUserID - 1 + MaxUsers

IssuesLeft == Cardinality(issued) < MaxIssued

NextAuth ==
    \/ AuthIdle /\ Tick
    \/ AuthIdle /\ UsersLeft /\ IssuesLeft /\ \E req \in RegisterRequests : HandleRegister(req)
    \/ AuthIdle /\ IssuesLeft /\ \E req \in LoginRequests : HandleLogin(req)
    \/ AuthIdle /\ \E h \in AuthHeaders : HandleVerifyAuth(h)
    \/ AuthIdle /\ \E h \in AuthHeaders : HandleLogOut(h)
    \/ DeleteAccountIdle /\ \E h \in AuthHeaders : HandleDeleteAccount(h)
    \/ AuthIdle /\ \E cutoff \in 1..now : PurgeExpiredTokens(cutoff)
    \/ AuthResponseRead /\ UNCHANGED <<reactVars, reactWorkers, memberVars, notifVars, contentVars>>


-----------------------------------------------------------------------------
(* The reaction ledger *)

\* the authenticated users, the reaction_types rows and the ids requests name
Actors == 1..MaxActors

ReactionTypeIDs == 1..MaxReactionTypes

PostIDs == 1..(MaxPosts + 1)

CommentIDs == 1..(MaxComments + 1)

RequestedTypeIDs == (-1)..(MaxReactionTypes + 1)

\* the posts and comments stored before the requests of the model arrive: post i
\* and comment i belong to the users in turn, never edited; status is the
\* edited flag, parent_comment_id 0 is NULL
SeededPosts ==
    {[post_id |-> i, owner_id |-> ((i - 1) % MaxActors) + 1, category_id |-> 1,
      headline |-> "a", status |-> FALSE, created_at |-> 0, updated_at |-> 0] :
     i \in 1..MaxPosts}

SeededComments ==
    {[comment_id |-> i, post_id |-> ((i - 1) % MaxPosts) + 1,
      owner_id |-> (i % MaxActors) + 1, parent_comment_id |-> 0,
      text |-> "a", image |-> "", status |-> FALSE, created_at |-> 0, updated_at |-> 0] :
     i \in 1..MaxComments}

\* PostRepository.GetByID / CommentRepository.GetByID (the set of rows found)
PostGetByID(rows, id) == {x \in rows : x.post_id = id}

CommentGetByID(rows, id) == {x \in rows : x.comment_id = id}

\* the keys the foreign keys of reactions and comment_reactions are checked against
PostKeys(rows) == {x.post_id : x \in rows}

CommentKeys(rows) == {x.comment_id : x \in rows}

\* an INSERT without the ON CONFLICT clause on a table without the UNIQUE constraint
ReactionInsertOnly(rows, seq, rec, postIDs, typeIDs) ==
    IF rec.PostID \notin postIDs \/ rec.ReactionTypeID \notin typeIDs
    THEN [err |-> TRUE, rows |-> rows, ID |-> 0]
    ELSE [err |-> FALSE, ID |-> seq + 1,
          rows |-> rows \cup {[reaction_id |-> seq + 1, post_id |-> rec.PostID,
                               owner_id |-> rec.OwnerID,
                               reaction_type_id |-> rec.ReactionTypeID]}]

\* an INSERT without the ON CONFLICT clause: the UNIQUE constraint fails a second row
ReactionInsertConflictFails(rows, seq, rec, postIDs, typeIDs) ==
    IF \/ rec.PostID \notin postIDs \/ rec.ReactionTypeID \notin typeIDs
       \/ \E r \in rows : r.post_id = rec.PostID /\ r.owner_id = rec.OwnerID
    THEN [err |-> TRUE, rows |-> rows, ID |-> 0]
    ELSE [err |-> FALSE, ID |-> seq + 1,
          rows |-> rows \cup {[reaction_id |-> seq + 1, post_id |-> rec.PostID,
                               owner_id |-> rec.OwnerID,
                               reaction_type_id |-> rec.ReactionTypeID]}]

\* an upsert done as DELETE then INSERT: the replacing row gets a new id
ReactionUpsertDeleteInsert(rows, seq, rec, postIDs, typeIDs) ==
    LET old == {r \in rows : r.post_id = rec.PostID /\ r.owner_id = rec.OwnerID} IN
    IF rec.PostID \notin postIDs \/ rec.ReactionTypeID \notin typeIDs
    THEN [err |-> TRUE, rows |-> rows, ID |-> 0]
    ELSE [err |-> FALSE, ID |-> seq + 1,
          rows |-> (rows \ old) \cup {[reaction_id |-> seq + 1, post_id |-> rec.PostID,
                                        owner_id |-> rec.OwnerID,
                                        reaction_type_id |-> rec.ReactionTypeID]}]

\* an upsert into a reactions table whose post_id and reaction_type_id refer to nothing
ReactionUpsertNoForeignKeys(rows, seq, rec, postIDs, typeIDs) ==
    LET old == {r \in rows : r.post_id = rec.PostID /\ r.owner_id = rec.OwnerID} IN
    IF old # {}
    THEN [err |-> FALSE, ID |-> (CHOOSE r \in old : TRUE).reaction_id,
          rows |-> (rows \ old) \cup
                   {[r EXCEPT !.reaction_type_id = rec.ReactionTypeID] : r \in old}]
    ELSE [err |-> FALSE, ID |-> seq + 1,
          rows |-> rows \cup {[reaction_id |-> seq + 1, post_id |-> rec.PostID,
                               owner_id |-> rec.OwnerID,
                               reaction_type_id |-> rec.ReactionTypeID]}]

\* ReactionRepository.Upsert: INSERT ... ON CONFLICT (post_id, owner_id) DO UPDATE
\* SET reaction_type_id = EXCLUDED.reaction_type_id RETURNING reaction_id, one
\* atomic statement.  post_id and reaction_type_id are foreign keys.
ReactionUpsert(rows, seq, rec, postIDs, typeIDs) ==
    LET old == {r \in rows : r.post_id = rec.PostID /\ r.owner_id = rec.OwnerID} IN
    IF rec.PostID \notin postIDs \/ rec.ReactionTypeID \notin typeIDs
    THEN [err |-> TRUE, rows |-> rows, ID |-> 0]
    ELSE IF old # {}
    THEN [err |-> FALSE, ID |-> (CHOOSE r \in old : TRUE).reaction_id,
          rows |-> (rows \ old) \cup
                   {[r EXCEPT !.reaction_type_id = rec.ReactionTypeID] : r \in old}]
    ELSE [err |-> FALSE, ID |-> seq + 1,
          rows |-> rows \cup {[reaction_id |-> seq + 1, post_id |-> rec.PostID,
                               owner_id |-> rec.OwnerID,
                               reaction_type_id |-> rec.ReactionTypeID]}]

\* ReactionRepository.GetByOwnerAndPost (the set of rows found)
GetByOwnerAndPost(rows, ownerID, postID) ==
    {r \in rows : r.owner_id = ownerID /\ r.post_id = postID}

\* SELECT COUNT(DISTINCT reaction_type_id) FROM reactions WHERE post_id = $1
CountByPostDistinctTypes(rows, postID) ==
    Cardinality({r.reaction_type_id : r \in {x \in rows : x.post_id = postID}})

\* ReactionRepository.CountByPost: SELECT COUNT(*) FROM reactions WHERE post_id = $1
CountByPost(rows, postID) == Cardinality({r \in rows : r.post_id = postID})

\* CommentReactionRepository.Upsert, the same statement on comment_reactions
CommentReactionUpsert(rows, seq, rec, commentIDs, typeIDs) ==
    LET old == {r \in rows : r.comment_id = rec.CommentID /\ r.owner_id = rec.OwnerID} IN
    IF rec.CommentID \notin commentIDs \/ rec.ReactionTypeID \notin typeIDs
    THEN [err |-> TRUE, rows |-> rows, ID |-> 0]
    ELSE IF old # {}
    THEN [err |-> FALSE, ID |-> (CHOOSE r \in old : TRUE).comment_reaction_id,
          rows |-> (rows \ old) \cup
                   {[r EXCEPT !.reaction_type_id = rec.ReactionTypeID] : r \in old}]
    ELSE [err |-> FALSE, ID |-> seq + 1,
          rows |-> rows \cup {[comment_reaction_id |-> seq + 1,
                               comment_id |-> rec.CommentID, owner_id |-> rec.OwnerID,
                               reaction_type_id |-> rec.ReactionTypeID]}]

\* CommentReactionRepository.GetByOwnerAndComment (the set of rows found)
GetByOwnerAndComment(rows, ownerID, commentID) ==
    {r \in rows : r.owner_id = ownerID /\ r.comment_id = commentID}

\* CommentReactionRepository.Count: SELECT COUNT(comment_reaction_id) ... WHERE comment_id = $1
CommentReactionCount(rows, commentID) ==
    Cardinality({r \in rows : r.comment_id = commentID})

\* the reaction_type_id of the row a lookup found, 0 when it found none
TypeOf(found) == IF found = {} THEN 0 ELSE (CHOOSE r \in found : TRUE).reaction_type_id

ReactResp(op, status, userID, target, typeID, prevType, prevCount, id) ==
    [op |-> op, status |-> status, userID |-> userID, target |-> target,
     typeID |-> typeID, prevType |-> prevType, prevCount |-> prevCount, ID |-> id]

NoReactResp == ReactResp("none", 0, 0, 0, 0, 0, 0, 0)

InitReact ==
    /\ posts = SeededPosts
    /\ comments = SeededComments
    /\ reactions = {}
    /\ reactionSeq = 0
    /\ commentReactions = {}
    /\ commentReactionSeq = 0
    /\ reactResp = NoReactResp

\* POST /posts/{post_id}/react for the authenticated user userID
HandleReactToPost(userID, postID, typeID) ==
    LET prevType == TypeOf(GetByOwnerAndPost(reactions, userID, postID))
        prevCount == CountByPost(reactions, postID)
        up == ReactionUpsert(reactions, reactionSeq,
                             [PostID |-> postID, OwnerID |-> userID,
                              ReactionTypeID |-> typeID],
                             PostKeys(posts), ReactionTypeIDs)
    IN
    /\ UNCHANGED <<posts, comments, commentReactions, commentReactionSeq>>
    /\ IF typeID = 0
       THEN /\ reactResp' = ReactResp("reactPost", 422, userID, postID, typeID,
                                      prevType, prevCount, 0)
            /\ UNCHANGED <<reactions, reactionSeq>>
       ELSE /\ reactionSeq + commentReactionSeq < MaxUpserts
            /\ reactionSeq' = reactionSeq + 1
            /\ reactions' = up.rows
            /\ reactResp' = ReactResp("reactPost", IF up.err THEN 500 ELSE 200,
                                      userID, postID, typeID, prevType, prevCount, up.ID)

\* POST /comments/{comment_id}/react for the authenticated user userID
HandleReactToComment(userID, commentID, typeID) ==
    LET prevType == TypeOf(GetByOwnerAndComment(commentReactions, userID, commentID))
        prevCount == CommentReactionCount(commentReactions, commentID)
        up == CommentReactionUpsert(commentReactions, commentReactionSeq,
                                    [CommentID |-> commentID, OwnerID |-> userID,
                                     ReactionTypeID |-> typeID],
                                    CommentKeys(comments), ReactionTypeIDs)
        fail(status) == /\ reactResp' = ReactResp("reactComment", status, userID, commentID,
                                                  typeID, prevType, prevCount, 0)
                        /\ UNCHANGED <<commentReactions, commentReactionSeq>>
    IN
    /\ UNCHANGED <<posts, comments, reactions, reactionSeq>>
    /\ IF CommentGetByID(comments, commentID) = {} THEN fail(404)
       ELSE IF typeID <= 0 THEN fail(422)
       ELSE IF typeID \notin ReactionTypeIDs THEN fail(404)
       ELSE /\ reactionSeq + commentReactionSeq < MaxUpserts
            /\ commentReactionSeq' = commentReactionSeq + 1
            /\ commentReactions' = up.rows
            /\ reactResp' = ReactResp("reactComment", IF up.err THEN 500 ELSE 200,
                                      userID, commentID, typeID, prevType, prevCount, up.ID)

\* the client has read the response; the model sends its next request after that
ReactResponseRead ==
    /\ reactResp # NoReactResp
    /\ reactResp' = NoReactResp
    /\ UNCHANGED <<posts, comments, reactions, reactionSeq, commentReactions,
                   commentReactionSeq>>

\* the react endpoints take the next request, one request at a time
ReactIdle == reactResp = NoReactResp /\ UNCHANGED <<authVars, reactWorkers, memberVars, notifVars, contentVars>>

NextReact ==
    \/ ReactIdle /\ \E u \in Actors, p \in PostIDs, t \in RequestedTypeIDs :
                        HandleReactToPost(u, p, t)
    \/ ReactIdle /\ \E u \in Actors, c \in CommentIDs, t \in RequestedTypeIDs :
                        HandleReactToComment(u, c, t)
    \/ ReactResponseRead /\ UNCHANGED <<authVars, reactWorkers, memberVars, notifVars, contentVars>>

-----------------------------------------------------------------------------
(* The react endpoints serving two requests at once.  net/http runs each     *)
(* request in its own goroutine; the handlers hold no lock, so the requests  *)
(* interleave at their database statements, each statement being atomic.     *)

ReactWorkers == {"w1", "w2"}

ReactWorkerIdle ==
    [pc |-> "idle", op |-> "none", userID |-> 0, target |-> 0, typeID |-> 0,
     status |-> 0, overlap |-> FALSE]

InFlight(w) == reactWorkers[w].pc \notin {"idle", "done"}

InitReactWorkers == reactWorkers = [w \in ReactWorkers |-> ReactWorkerIdle]

\* request w arrives; overlap records that another request was in flight then
Arrive(w, op, userID, target, typeID, pc, status) ==
    LET others == {v \in ReactWorkers \ {w} : InFlight(v)} IN
    /\ reactWorkers[w].pc = "idle"
    /\ reactWorkers' =
          [v \in ReactWorkers |->
              IF v = w
              THEN [pc |-> pc, op |-> op, userID |-> userID, target |-> target,
                    typeID |-> typeID, status |-> status,
                    overlap |-> pc # "done" /\ others # {}]
              ELSE IF v \in others /\ pc # "done"
              THEN [reactWorkers[v] EXCEPT !.overlap = TRUE]
              ELSE reactWorkers[v]]

Finish(w, status) ==
    reactWorkers' = [reactWorkers EXCEPT ![w].pc = "done", ![w].status = status]

Goto(w, pc) == reactWorkers' = [reactWorkers EXCEPT ![w].pc = pc]

\* HandleReactToPost up to its one statement: path id, body, reaction_type_id = 0
ReactToPostBegin(w, userID, postID, typeID) ==
    /\ IF typeID = 0
       THEN Arrive(w, "reactPost", userID, postID, typeID, "done", 422)
       ELSE Arrive(w, "reactPost", userID, postID, typeID, "upsert", 0)
    /\ UNCHANGED reactVars

\* HandleReactToPost: reactionRepo.Upsert and the response
ReactToPostUpsert(w) ==
    LET me == reactWorkers[w]
        up == ReactionUpsert(reactions, reactionSeq,
                             [PostID |-> me.target, OwnerID |-> me.userID,
                              ReactionTypeID |-> me.typeID],
                             PostKeys(posts), ReactionTypeIDs)
    IN
    /\ me.pc = "upsert" /\ me.op = "reactPost"
    /\ reactions' = up.rows
    /\ reactionSeq' = reactionSeq + 1
    /\ Finish(w, IF up.err THEN 500 ELSE 200)
    /\ UNCHANGED <<posts, comments, commentReactions, commentReactionSeq, reactResp>>

\* HandleReactToComment up to its first statement
ReactToCommentBegin(w, userID, commentID, typeID) ==
    /\ Arrive(w, "reactComment", userID, commentID, typeID, "getComment", 0)
    /\ UNCHANGED reactVars

\* HandleReactToComment: commentRepo.GetByID, then the body's reaction_type_id
ReactToCommentGetComment(w) ==
    LET me == reactWorkers[w] IN
    /\ me.pc = "getComment"
    /\ IF CommentGetByID(comments, me.target) = {} THEN Finish(w, 404)
       ELSE IF me.typeID <= 0 THEN Finish(w, 422)
       ELSE Goto(w, "getType")
    /\ UNCHANGED reactVars

\* HandleReactToComment: reactionTypeRepo.GetByID
ReactToCommentGetType(w) ==
    LET me == reactWorkers[w] IN
    /\ me.pc = "getType"
    /\ IF me.typeID \notin ReactionTypeIDs THEN Finish(w, 404) ELSE Goto(w, "upsert")
    /\ UNCHANGED reactVars

\* HandleReactToComment: commentReactionRepo.Upsert and the response
ReactToCommentUpsert(w) ==
    LET me == reactWorkers[w]
        up == CommentReactionUpsert(commentReactions, commentReactionSeq,
                                    [CommentID |-> me.target, OwnerID |-> me.userID,
                                     ReactionTypeID |-> me.typeID],
                                    CommentKeys(comments), ReactionTypeIDs)
    IN
    /\ me.pc = "upsert" /\ me.op = "reactComment"
    /\ commentReactions' = up.rows
    /\ commentReactionSeq' = commentReactionSeq + 1
    /\ Finish(w, IF up.err THEN 500 ELSE 200)
    /\ UNCHANGED <<posts, comments, reactions, reactionSeq, reactResp>>

NextReactConc ==
    \/ \E w \in ReactWorkers, u \in Actors, p \in PostIDs, t \in RequestedTypeIDs :
          ReactToPostBegin(w, u, p, t) /\ UNCHANGED <<authVars, memberVars, notifVars, contentVars>>
    \/ \E w \in ReactWorkers : ReactToPostUpsert(w) /\ UNCHANGED <<authVars, memberVars, notifVars, contentVars>>
    \/ \E w \in ReactWorkers, u \in Actors, c \in CommentIDs, t \in RequestedTypeIDs :
          ReactToCommentBegin(w, u, c, t) /\ UNCHANGED <<authVars, memberVars, notifVars, contentVars>>
    \/ \E w \in ReactWorkers : ReactToCommentGetComment(w) /\ UNCHANGED <<authVars, memberVars, notifVars, contentVars>>
    \/ \E w \in ReactWorkers : ReactToCommentGetType(w) /\ UNCHANGED <<authVars, memberVars, notifVars, contentVars>>
    \/ \E w \in ReactWorkers : ReactToCommentUpsert(w) /\ UNCHANGED <<authVars, memberVars, notifVars, contentVars>>

-----------------------------------------------------------------------------
(* Posts and comments: create, update, delete *)

\* the headline of a post request and the text of a comment request: none, or
\* one that differs from the stored ones
Contents == {"", "b"}

\* the ids requests name: every id handed out so far and one never handed out
ContentPostIDs == 1..(MaxPosts + MaxCreates + 1)

ContentCommentIDs == 1..(MaxComments + MaxCreates + 1)

\* the category ids in the path of a create request: a stored one and one not stored
RequestedCategoryIDs == {1, MaxCategories + 1}

\* the text of the error the driver returns when the arguments bound do not
\* match the statement's placeholders
StorageErrorText == "pq: got 6 parameters but the statement requires 8"

\* PostRepository.Create: INSERT INTO posts (...) VALUES (...) RETURNING ..., at
\* time t; owner_id and category_id are foreign keys
PostCreate(rows, seq, p, t, cats) ==
    IF ~\E c \in cats : c.category_id = p.CategoryID
    THEN [err |-> "pq: foreign key violation", rows |-> rows]
    ELSE [err |-> "",
          rows |-> rows \cup {[post_id |-> seq + 1, owner_id |-> p.OwnerID,
                               category_id |-> p.CategoryID, headline |-> p.Headline,
                               status |-> p.Status, created_at |-> t, updated_at |-> t]}]

\* PostRepository.Update with a statement that leaves the status column alone
PostUpdateKeepsStatus(rows, p, t) ==
    IF PostGetByID(rows, p.ID) = {}
    THEN [err |-> "ErrNoRows", rows |-> rows]
    ELSE [err |-> "",
          rows |-> {IF x.post_id = p.ID
                    THEN [x EXCEPT !.headline = p.Headline, !.updated_at = t]
                    ELSE x : x \in rows}]

\* PostRepository.Update: UPDATE posts SET headline = $2, ..., status = TRUE,
\* updated_at = NOW() WHERE post_id = $1
PostUpdate(rows, p, t) ==
    IF PostGetByID(rows, p.ID) = {}
    THEN [err |-> "ErrNoRows", rows |-> rows]
    ELSE [err |-> "",
          rows |-> {IF x.post_id = p.ID
                    THEN [x EXCEPT !.headline = p.Headline, !.status = TRUE, !.updated_at = t]
                    ELSE x : x \in rows}]

\* PostRepository.Delete: DELETE FROM posts WHERE post_id = $1
PostDelete(rows, id) ==
    IF PostGetByID(rows, id) = {}
    THEN [err |-> "ErrNoRows", rows |-> rows]
    ELSE [err |-> "", rows |-> {x \in rows : x.post_id # id}]

\* CommentRepository.Create, at time t.  The statement of the repository the
\* handlers are built against names eight placeholders and binds six arguments;
\* an earlier statement names six.  binds says which of the two is running: with
\* the first the driver refuses every call.  post_id is a foreign key.
CommentCreate(rows, seq, c, t, postKeys, binds) ==
    IF ~binds
    THEN [err |-> StorageErrorText, rows |-> rows]
    ELSE IF c.PostID \notin postKeys
    THEN [err |-> "pq: foreign key violation", rows |-> rows]
    ELSE [err |-> "",
          rows |-> rows \cup {[comment_id |-> seq + 1, post_id |-> c.PostID,
                               owner_id |-> c.OwnerID,
                               parent_comment_id |-> c.ParentCommentID, text |-> c.Text,
                               image |-> "",
                               status |-> c.Status, created_at |-> t, updated_at |-> t]}]

\* CommentRepository.Update: UPDATE comments SET text = $2, image = $3,
\* status = TRUE, updated_at = NOW() WHERE comment_id = $1
CommentUpdate(rows, c, t) ==
    IF CommentGetByID(rows, c.ID) = {}
    THEN [err |-> "ErrNoRows", rows |-> rows]
    ELSE [err |-> "",
          rows |-> {IF x.comment_id = c.ID
                    THEN [x EXCEPT !.text = c.Text, !.image = c.Image, !.status = TRUE,
                                   !.updated_at = t]
                    ELSE x : x \in rows}]

\* CommentRepository.Delete: DELETE FROM comments WHERE comment_id = $1; the
\* replies' parent_comment_id is ON DELETE SET NULL
CommentDelete(rows, id) ==
    IF CommentGetByID(rows, id) = {}
    THEN [err |-> "ErrNoRows", rows |-> rows]
    ELSE [err |-> "",
          rows |-> {IF x.parent_comment_id = id THEN [x EXCEPT !.parent_comment_id = 0]
                    ELSE x : x \in {y \in rows : y.comment_id # id}}]

\* comments.post_id without ON DELETE CASCADE
CommentsKept(commentRows, postRows) == commentRows

\* ON DELETE CASCADE of comments.post_id, reactions.post_id and
\* comment_reactions.comment_id: what is left once the rows of posts and
\* comments have become postRows and commentRows
CommentsOnPosts(commentRows, postRows) ==
    {c \in commentRows : c.post_id \in PostKeys(postRows)}

ReactionsOnPosts(reactionRows, postRows) ==
    {r \in reactionRows : r.post_id \in PostKeys(postRows)}

ReactionsOnComments(commentReactionRows, commentRows) ==
    {r \in commentReactionRows : r.comment_id \in CommentKeys(commentRows)}

ContentResp(op, status, message, userID, id, prev) ==
    [op |-> op, status |-> status, message |-> message, userID |-> userID, id |-> id,
     prev |-> prev]

NoContentResp == ContentResp("none", 0, "", 0, 0, {})

\* the requests whose GetByID and Update interleave with another request's
UpdateWorkers == {"u1", "u2"}

\* an UpdateCommentRequest whose image field is absent
NilImage == "nil"

UpdateWorkerIdle ==
    [pc |-> "idle", userID |-> 0, commentID |-> 0, req |-> [Text |-> "", Image |-> NilImage],
     comment |-> {}, status |-> 0]

InitUpdateWorkers == updateWorkers = [w \in UpdateWorkers |-> UpdateWorkerIdle]

InitContent ==
    /\ postSeq = MaxPosts
    /\ commentSeq = MaxComments
    /\ contentResp = NoContentResp
    /\ InitUpdateWorkers

CreatesLeft == (postSeq - MaxPosts) + (commentSeq - MaxComments) < MaxCreates

\* POST /categories/{category_id}/posts for the authenticated user userID
HandleCreatePost(userID, categoryID, headline) ==
    LET cr == PostCreate(posts, postSeq,
                         [OwnerID |-> userID, CategoryID |-> categoryID,
                          Headline |-> headline, Status |-> FALSE],
                         now, categories)
    IN
    /\ UNCHANGED <<comments, reactions, reactionSeq, commentReactions,
                   commentReactionSeq, reactResp, commentSeq>>
    /\ IF headline = ""
       THEN /\ contentResp' = ContentResp("createPost", 422, "headline is required",
                                          userID, 0, {})
            /\ UNCHANGED <<posts, postSeq>>
       ELSE /\ CreatesLeft
            /\ postSeq' = postSeq + 1
            /\ posts' = cr.rows
            /\ contentResp' =
                  IF cr.err # ""
                  THEN ContentResp("createPost", 500, "failed to create post", userID, 0, {})
                  ELSE ContentResp("createPost", 200, "Post created successfully!",
                                   userID, postSeq + 1, {})

\* HandleUpdatePost without the comparison of post.OwnerID with userID
HandleUpdatePostAnyUser(userID, postID, headline) ==
    LET found == PostGetByID(posts, postID)
        up == PostUpdate(posts, [ID |-> postID, Headline |-> headline], now)
        answer(status, message) ==
            contentResp' = ContentResp("updatePost", status, message, userID, postID, found)
    IN
    /\ UNCHANGED <<comments, reactions, reactionSeq, commentReactions,
                   commentReactionSeq, reactResp, postSeq, commentSeq>>
    /\ IF headline = ""
       THEN answer(422, "headline is required") /\ UNCHANGED posts
       ELSE IF found = {}
       THEN answer(404, "post not found") /\ UNCHANGED posts
       ELSE /\ posts' = up.rows
            /\ answer(200, "Post updated successfully!")

\* PUT /posts/{post_id} for the authenticated user userID
HandleUpdatePost(userID, postID, headline) ==
    LET found == PostGetByID(posts, postID)
        post == CHOOSE x \in found : TRUE
        up == PostUpdate(posts, [ID |-> postID, Headline |-> headline], now)
        answer(status, message) ==
            contentResp' = ContentResp("updatePost", status, message, userID, postID, found)
    IN
    /\ UNCHANGED <<comments, reactions, reactionSeq, commentReactions,
                   commentReactionSeq, reactResp, postSeq, commentSeq>>
    /\ IF headline = ""
       THEN answer(422, "headline is required") /\ UNCHANGED posts
       ELSE IF found = {}
       THEN answer(404, "post not found") /\ UNCHANGED posts
       ELSE IF post.owner_id # userID
       THEN answer(403, "you can only update your own posts") /\ UNCHANGED posts
       ELSE /\ posts' = up.rows
            /\ IF up.err # ""
               THEN answer(500, "failed to update post")
               ELSE answer(200, "Post updated successfully!")

\* DELETE /posts/{post_id} for the authenticated user userID
HandleDeletePost(userID, postID) ==
    LET found == PostGetByID(posts, postID)
        post == CHOOSE x \in found : TRUE
        del == PostDelete(posts, postID)
        left == CommentsOnPosts(comments, del.rows)
        answer(status, message) ==
            contentResp' = ContentResp("deletePost", status, message, userID, postID, found)
        untouched == UNCHANGED <<posts, comments, reactions, commentReactions>>
    IN
    /\ UNCHANGED <<reactionSeq, commentReactionSeq, reactResp, postSeq, commentSeq>>
    /\ IF found = {}
       THEN answer(404, "post not found") /\ untouched
       ELSE IF post.owner_id # userID
       THEN answer(403, "you can only delete your own posts") /\ untouched
       ELSE /\ posts' = del.rows
            /\ comments' = left
            /\ reactions' = ReactionsOnPosts(reactions, del.rows)
            /\ commentReactions' = ReactionsOnComments(commentReactions, left)
            /\ IF del.err # ""
               THEN answer(500, "failed to delete post")
               ELSE answer(200, "Post deleted successfully!")

\* what both comment-creating handlers do from the body on
CreateComment(op, created, userID, postID, parentID, text, binds) ==
    LET cr == CommentCreate(comments, commentSeq,
                            [PostID |-> postID, OwnerID |-> userID,
                             ParentCommentID |-> parentID, Text |-> text,
                             Status |-> FALSE],
                            now, PostKeys(posts), binds)
    IN
    IF text = ""
    THEN /\ contentResp' = ContentResp(op, 422, "text is required", userID, 0, {})
         /\ UNCHANGED <<comments, commentSeq>>
    ELSE /\ CreatesLeft
         /\ commentSeq' = commentSeq + 1
         /\ comments' = cr.rows
         /\ contentResp' =
               IF cr.err # ""
               THEN ContentResp(op, 500, cr.err, userID, 0, {})
               ELSE ContentResp(op, 201, created, userID, commentSeq + 1, {})

\* POST /posts/{post_id}/comments for the authenticated user userID
HandleCreateCommentOnPost(userID, postID, text, binds) ==
    /\ UNCHANGED <<posts, reactions, reactionSeq, commentReactions,
                   commentReactionSeq, reactResp, postSeq>>
    /\ IF PostGetByID(posts, postID) = {}
       THEN /\ contentResp' = ContentResp("createComment", 404, "post not found",
                                          userID, 0, {})
            /\ UNCHANGED <<comments, commentSeq>>
       ELSE CreateComment("createComment", "Comment created successfully!", userID, postID,
                          0, text, binds)

\* a reply handler that attaches the reply to a post of the request's choosing
HandleCreateReplyToCommentAnyPost(userID, parentCommentID, text, binds) ==
    /\ UNCHANGED <<posts, reactions, reactionSeq, commentReactions,
                   commentReactionSeq, reactResp, postSeq>>
    /\ IF CommentGetByID(comments, parentCommentID) = {}
       THEN /\ contentResp' = ContentResp("createReply", 404, "comment not found",
                                          userID, 0, {})
            /\ UNCHANGED <<comments, commentSeq>>
       ELSE \E p \in PostKeys(posts) :
               CreateComment("createReply", "Reply created successfully!", userID,
                             p, parentCommentID, text, binds)

\* POST /comments/{comment_id}/replies for the authenticated user userID
HandleCreateReplyToComment(userID, parentCommentID, text, binds) ==
    LET found == CommentGetByID(comments, parentCommentID)
        parentComment == CHOOSE x \in found : TRUE
    IN
    /\ UNCHANGED <<posts, reactions, reactionSeq, commentReactions,
                   commentReactionSeq, reactResp, postSeq>>
    /\ IF found = {}
       THEN /\ contentResp' = ContentResp("createReply", 404, "comment not found",
                                          userID, 0, {})
            /\ UNCHANGED <<comments, commentSeq>>
       ELSE CreateComment("createReply", "Reply created successfully!", userID,
                          parentComment.post_id, parentCommentID, text, binds)

\* PUT /comments/{comment_id} for the authenticated user userID; an empty text
\* keeps the stored one
HandleUpdateComment(userID, commentID, text) ==
    LET found == CommentGetByID(comments, commentID)
        comment == CHOOSE x \in found : TRUE
        up == CommentUpdate(comments,
                            [ID |-> commentID,
                             Text |-> IF text # "" THEN text ELSE comment.text,
                             Image |-> comment.image],
                            now)
        answer(status, message) ==
            contentResp' = ContentResp("updateComment", status, message, userID,
                                       commentID, found)
    IN
    /\ UNCHANGED <<posts, reactions, reactionSeq, commentReactions,
                   commentReactionSeq, reactResp, postSeq, commentSeq>>
    /\ IF found = {}
       THEN answer(404, "comment not found") /\ UNCHANGED comments
       ELSE IF comment.owner_id # userID
       THEN answer(403, "you cannot update this comment") /\ UNCHANGED comments
       ELSE /\ comments' = up.rows
            /\ IF up.err # ""
               THEN answer(500, up.err)
               ELSE answer(200, "Comment/Reply updated successfully!")

\* a delete handler that answers 403 for a comment that is not stored
HandleDeleteCommentHidesExistence(userID, commentID) ==
    LET found == CommentGetByID(comments, commentID)
        del == CommentDelete(comments, commentID)
        answer(status, message) ==
            contentResp' = ContentResp("deleteComment", status, message, userID,
                                       commentID, found)
    IN
    /\ UNCHANGED <<posts, reactions, reactionSeq, commentReactionSeq, reactResp,
                   postSeq, commentSeq>>
    /\ IF \A x \in found : x.owner_id # userID
       THEN answer(403, "you cannot delete this comment")
            /\ UNCHANGED <<comments, commentReactions>>
       ELSE /\ comments' = del.rows
            /\ commentReactions' = ReactionsOnComments(commentReactions, del.rows)
            /\ answer(200, "Comment/Reply deleted successfully!")

\* DELETE /comments/{comment_id} for the authenticated user userID
HandleDeleteComment(userID, commentID) ==
    LET found == CommentGetByID(comments, commentID)
        comment == CHOOSE x \in found : TRUE
        del == CommentDelete(comments, commentID)
        answer(status, message) ==
            contentResp' = ContentResp("deleteComment", status, message, userID,
                                       commentID, found)
    IN
    /\ UNCHANGED <<posts, reactions, reactionSeq, commentReactionSeq, reactResp,
                   postSeq, commentSeq>>
    /\ IF found = {}
       THEN answer(404, "comment not found") /\ UNCHANGED <<comments, commentReactions>>
       ELSE IF comment.owner_id # userID
       THEN answer(403, "you cannot delete this comment")
            /\ UNCHANGED <<comments, commentReactions>>
       ELSE /\ comments' = del.rows
            /\ commentReactions' = ReactionsOnComments(commentReactions, del.rows)
            /\ IF del.err # ""
               THEN answer(500, del.err)
               ELSE answer(200, "Comment/Reply deleted successfully!")

\* the client has read the response; the model sends its next request after that
ContentResponseRead ==
    /\ contentResp # NoContentResp
    /\ contentResp' = NoContentResp
    /\ UNCHANGED <<reactVars, postSeq, commentSeq, updateWorkers>>

ContentIdle ==
    /\ contentResp = NoContentResp
    /\ UNCHANGED <<authVars, reactWorkers, memberVars, notifVars, updateWorkers>>

NextContent ==
    \/ ContentIdle /\ \E u \in Actors, c \in RequestedCategoryIDs, h \in Contents :
                          HandleCreatePost(u, c, h)
    \/ ContentIdle /\ \E u \in Actors, id \in ContentPostIDs, h \in Contents :
                          HandleUpdatePost(u, id, h)
    \/ ContentIdle /\ \E u \in Actors, id \in ContentPostIDs :
                          HandleDeletePost(u, id)
    \/ ContentIdle /\ \E u \in Actors, id \in ContentPostIDs, t \in Contents, b \in BOOLEAN :
                          HandleCreateCommentOnPost(u, id, t, b)
    \/ ContentIdle /\ \E u \in Actors, id \in ContentCommentIDs, t \in Contents, b \in BOOLEAN :
                          HandleCreateReplyToComment(u, id, t, b)
    \/ ContentIdle /\ \E u \in Actors, id \in ContentCommentIDs, t \in Contents :
                          HandleUpdateComment(u, id, t)
    \/ ContentIdle /\ \E u \in Actors, id \in ContentCommentIDs :
                          HandleDeleteComment(u, id)
    \/ ContentResponseRead /\ UNCHANGED <<authVars, reactWorkers, memberVars, notifVars>>

\* both kinds of response have been read
CascadeIdle == ReactIdle /\ contentResp = NoContentResp

CascadeContentIdle == ContentIdle /\ reactResp = NoReactResp

\* reactions arrive on posts and comments while posts and comments are deleted
NextCascade ==
    \/ CascadeIdle /\ \E u \in Actors, id \in PostIDs, t \in RequestedTypeIDs :
                          HandleReactToPost(u, id, t)
    \/ CascadeIdle /\ \E u \in Actors, id \in CommentIDs, t \in RequestedTypeIDs :
                          HandleReactToComment(u, id, t)
    \/ CascadeContentIdle /\ \E u \in Actors, id \in ContentPostIDs :
                          HandleDeletePost(u, id)
    \/ CascadeContentIdle /\ \E u \in Actors, id \in ContentCommentIDs :
                          HandleDeleteComment(u, id)
    \/ CascadeContentIdle /\ \E u \in Actors, id \in ContentPostIDs, t \in Contents, b \in BOOLEAN :
                          HandleCreateCommentOnPost(u, id, t, b)
    \/ ReactResponseRead /\ UNCHANGED <<authVars, reactWorkers, memberVars, notifVars, contentVars>>
    \/ ContentResponseRead /\ UNCHANGED <<authVars, reactWorkers, memberVars, notifVars>>

-----------------------------------------------------------------------------
(* Category memberships.  Subscribe requests are served concurrently, each   *)
(* in its own goroutine, interleaving at their database statements.          *)

\* the accounts registered before the subscribe requests arrive
SeededUsers ==
    {[user_id |-> FirstUserID, username |-> "ann", email |-> AnnEmail,
      password |-> GenerateFromPassword(GoodPassword)],
     [user_id |-> FirstUserID + 1, username |-> "bob", email |-> BobEmail,
      password |-> GenerateFromPassword(GoodPassword)]}

\* the user ids in the request context: the seeded accounts and one whose
\* account is gone by the time the handler runs
SubscriberIDs == FirstUserID..(FirstUserID + 2)

CategoryName(i) == <<"c">> \o FormatNat(i)

\* the names requests carry: the stored ones, one not stored, and the empty string
RequestedCategories == {CategoryName(i) : i \in 1..(MaxCategories + 1)} \cup {<<>>}

\* UserRepository.GetByID (the set of rows found)
UserGetByID(us, id) == {u \in us : u.user_id = id}

\* CategoryRepository.GetByName (the set of rows found)
GetByName(rows, name) == {c \in rows : c.category = name}

\* an INSERT without the ON CONFLICT clause: the UNIQUE constraint fails a second row
MembershipInsertConflictFails(rows, seq, m, t, us, cats) ==
    IF \/ UserGetByID(us, m.UserID) = {}
       \/ ~\E c \in cats : c.category_id = m.CategoryID
       \/ \E r \in rows : r.category_id = m.CategoryID /\ r.user_id = m.UserID
    THEN [err |-> TRUE, rows |-> rows, m |-> m]
    ELSE [err |-> FALSE,
          rows |-> rows \cup {[membership_id |-> seq + 1, category_id |-> m.CategoryID,
                               user_id |-> m.UserID, joined_date |-> t]},
          m |-> [m EXCEPT !.ID = seq + 1, !.JoinedDate = t]]

\* MembershipRepository.Create: INSERT ... ON CONFLICT (category_id, user_id)
\* DO NOTHING RETURNING membership_id, joined_date, one atomic statement at time
\* t.  With the pair stored the statement returns no row, Scan gives
\* sql.ErrNoRows and Create returns the m it was given, and no error.
MembershipCreate(rows, seq, m, t, us, cats) ==
    IF UserGetByID(us, m.UserID) = {} \/ ~\E c \in cats : c.category_id = m.CategoryID
    THEN [err |-> TRUE, rows |-> rows, m |-> m]
    ELSE IF \E r \in rows : r.category_id = m.CategoryID /\ r.user_id = m.UserID
    THEN [err |-> FALSE, rows |-> rows, m |-> m]
    ELSE [err |-> FALSE,
          rows |-> rows \cup {[membership_id |-> seq + 1, category_id |-> m.CategoryID,
                               user_id |-> m.UserID, joined_date |-> t]},
          m |-> [m EXCEPT !.ID = seq + 1, !.JoinedDate = t]]

\* MembershipRepository.GetByUserAndCategory (the set of rows found)
GetByUserAndCategory(rows, userID, categoryID) ==
    {r \in rows : r.user_id = userID /\ r.category_id = categoryID}

Subscribers == {"s1", "s2"}

\* m is the entity.Membership of the request: zero until the handler fills it
SubscriberIdle ==
    [pc |-> "idle", userID |-> 0, category |-> <<>>,
     m |-> [ID |-> 0, CategoryID |-> 0, UserID |-> 0, JoinedDate |-> 0],
     status |-> 0, inserted |-> FALSE, overlap |-> FALSE]

Subscribing(w) == subscribers[w].pc \notin {"idle", "done"}

InitMemberships ==
    /\ categories = {[category_id |-> i, category |-> CategoryName(i)] : i \in 1..MaxCategories}
    /\ memberships = {}
    /\ membershipSeq = 0
    /\ subscribers = [w \in Subscribers |-> SubscriberIdle]

SubscribeFinish(w, status) ==
    subscribers' = [subscribers EXCEPT ![w].pc = "done", ![w].status = status]

\* HandleSubscribeCategory up to its first statement: the body, category = ""
SubscribeBegin(w, userID, category) ==
    LET others == {v \in Subscribers \ {w} : Subscribing(v)}
        pc == IF category = <<>> THEN "done" ELSE "getUser"
    IN
    /\ subscribers[w].pc = "idle"
    /\ subscribers' =
          [v \in Subscribers |->
              IF v = w
              THEN [SubscriberIdle EXCEPT !.pc = pc, !.userID = userID,
                                          !.category = category,
                                          !.status = IF category = <<>> THEN 422 ELSE 0,
                                          !.overlap = pc # "done" /\ others # {}]
              ELSE IF v \in others /\ pc # "done"
              THEN [subscribers[v] EXCEPT !.overlap = TRUE]
              ELSE subscribers[v]]
    /\ UNCHANGED <<categories, memberships, membershipSeq>>

\* HandleSubscribeCategory: userRepo.GetByID
SubscribeGetUser(w) ==
    LET me == subscribers[w] IN
    /\ me.pc = "getUser"
    /\ IF UserGetByID(users, me.userID) = {}
       THEN SubscribeFinish(w, 404)
       ELSE subscribers' = [subscribers EXCEPT ![w].pc = "getCategory"]
    /\ UNCHANGED <<categories, memberships, membershipSeq>>

\* HandleSubscribeCategory: categoryRepo.GetByName, then the Membership value
SubscribeGetCategory(w) ==
    LET me == subscribers[w]
        found == GetByName(categories, me.category)
    IN
    /\ me.pc = "getCategory"
    /\ IF found = {}
       THEN SubscribeFinish(w, 404)
       ELSE subscribers' =
              [subscribers EXCEPT ![w].pc = "create",
                                  ![w].m.CategoryID = (CHOOSE c \in found : TRUE).category_id,
                                  ![w].m.UserID = me.userID]
    /\ UNCHANGED <<categories, memberships, membershipSeq>>

\* HandleSubscribeCategory: membershipRepo.Create and the response
SubscribeCreate(w) ==
    LET me == subscribers[w]
        cr == MembershipCreate(memberships, membershipSeq, me.m, now, users, categories)
    IN
    /\ me.pc = "create"
    /\ memberships' = cr.rows
    /\ membershipSeq' = membershipSeq + 1
    /\ subscribers' = [subscribers EXCEPT ![w].pc = "done",
                                          ![w].status = IF cr.err THEN 500 ELSE 200,
                                          ![w].m = cr.m,
                                          ![w].inserted = cr.rows # memberships]
    /\ UNCHANGED categories

MemberFrame == UNCHANGED <<authVars, reactVars, reactWorkers, notifVars, contentVars>>

NextMember ==
    \/ \E w \in Subscribers, u \in SubscriberIDs, c \in RequestedCategories :
          SubscribeBegin(w, u, c) /\ MemberFrame
    \/ \E w \in Subscribers : SubscribeGetUser(w) /\ MemberFrame
    \/ \E w \in Subscribers : SubscribeGetCategory(w) /\ MemberFrame
    \/ \E w \in Subscribers : SubscribeCreate(w) /\ MemberFrame
    \/ Tick /\ UNCHANGED <<reactVars, reactWorkers, memberVars, notifVars, contentVars>>

-----------------------------------------------------------------------------
(* Notifications: the read/unread flag *)

NotificationIDs == 1..(MaxNotifications + 1)

\* NotificationRepository.Create: INSERT ... VALUES (..., $6) RETURNING ...; the
\* status stored is the one the caller's entity carries
NotificationCreate(rows, seq, n) ==
    rows \cup {[notification_id |-> seq + 1, owner_id |-> n.OwnerID,
                actor_id |-> n.ActorID, status |-> n.Status]}

\* NotificationRepository.GetByID (the set of rows found)
NotificationGetByID(rows, id) == {n \in rows : n.notification_id = id}

\* an UPDATE whose driver counts only the rows it changed
MarkReadCountsChangedRows(rows, id) ==
    IF \E n \in rows : n.notification_id = id /\ ~n.status
    THEN [err |-> "",
          rows |-> {IF n.notification_id = id THEN [n EXCEPT !.status = TRUE] ELSE n :
                    n \in rows}]
    ELSE [err |-> "ErrNoRows", rows |-> rows]

\* NotificationRepository.MarkRead: UPDATE notifications SET status = TRUE WHERE
\* notification_id = $1; RowsAffected counts the rows matched, changed or not
MarkRead(rows, id) ==
    IF NotificationGetByID(rows, id) = {}
    THEN [err |-> "ErrNoRows", rows |-> rows]
    ELSE [err |-> "",
          rows |-> {IF n.notification_id = id THEN [n EXCEPT !.status = TRUE] ELSE n :
                    n \in rows}]

\* NotificationRepository.MarkUnread: the same with status = FALSE
MarkUnread(rows, id) ==
    IF NotificationGetByID(rows, id) = {}
    THEN [err |-> "ErrNoRows", rows |-> rows]
    ELSE [err |-> "",
          rows |-> {IF n.notification_id = id THEN [n EXCEPT !.status = FALSE] ELSE n :
                    n \in rows}]

\* the rows in ORDER BY notification_id DESC
RECURSIVE OrderByIDDesc(_)
OrderByIDDesc(rows) ==
    IF rows = {} THEN <<>>
    ELSE LET top == CHOOSE n \in rows :
                        \A o \in rows : o.notification_id <= n.notification_id
         IN  <<top>> \o OrderByIDDesc(rows \ {top})

\* LIMIT limit OFFSET offset over an ordered result; the database refuses a
\* negative LIMIT or OFFSET
LimitOffset(list, limit, offset) ==
    IF limit < 0 \/ offset < 0
    THEN [err |-> "pq: LIMIT or OFFSET must not be negative", list |-> <<>>]
    ELSE [err |-> "",
          list |-> SubSeq(list, offset + 1,
                          IF offset + limit < Len(list) THEN offset + limit ELSE Len(list))]

\* a listing with no WHERE owner_id = $1
ListByOwnerAndStatusAnyOwner(rows, ownerID, status, limit, offset) ==
    LimitOffset(OrderByIDDesc({n \in rows : n.status = status}), limit, offset)

\* NotificationRepository.ListByOwner: SELECT ... WHERE owner_id = $1
\* ORDER BY notification_id DESC LIMIT $2 OFFSET $3
ListByOwner(rows, ownerID, limit, offset) ==
    LimitOffset(OrderByIDDesc({n \in rows : n.owner_id = ownerID}), limit, offset)

\* NotificationRepository.ListByOwnerAndStatus: the same with AND status = $2
ListByOwnerAndStatus(rows, ownerID, status, limit, offset) ==
    LimitOffset(OrderByIDDesc({n \in rows : n.owner_id = ownerID /\ n.status = status}),
                limit, offset)

\* the handlers' limit when the query has none, or one that is not a number
DefaultLimit == 1000

\* the limit and offset query parameters the model sends
RequestedLimits == {-1, 0, 1, DefaultLimit}

RequestedOffsets == {-1, 0, 1}

NotifResp(op, status, userID, id, prevStatus) ==
    [op |-> op, status |-> status, userID |-> userID, id |-> id, prevStatus |-> prevStatus,
     list |-> <<>>]

NoNotifResp == NotifResp("none", 0, 0, 0, FALSE)

InitNotifications ==
    /\ notifications = {}
    /\ notificationSeq = 0
    /\ notifResp = NoNotifResp
    /\ markedRead = {}

\* a notification about actorID is stored for ownerID, with the status its
\* producer gives it
CreateNotification(ownerID, actorID, status) ==
    /\ notificationSeq < MaxNotifications
    /\ notifications' = NotificationCreate(notifications, notificationSeq,
                                           [OwnerID |-> ownerID, ActorID |-> actorID,
                                            Status |-> status])
    /\ notificationSeq' = notificationSeq + 1
    /\ UNCHANGED <<notifResp, markedRead>>

\* the mark handlers without the n.OwnerID != userID test
MarkNotificationAnyUser(op, userID, id, marked) ==
    LET found == NotificationGetByID(notifications, id)
        n == CHOOSE x \in found : TRUE
    IN
    /\ UNCHANGED notificationSeq
    /\ IF found = {}
       THEN /\ notifResp' = NotifResp(op, 404, userID, id, FALSE)
            /\ UNCHANGED <<notifications, markedRead>>
       ELSE /\ notifications' = marked.rows
            /\ markedRead' = IF op = "markRead" THEN markedRead \cup {id} ELSE markedRead
            /\ notifResp' = NotifResp(op, 200, userID, id, n.status)

\* what both mark handlers do around their repository call
MarkNotification(op, userID, id, marked) ==
    LET found == NotificationGetByID(notifications, id)
        n == CHOOSE x \in found : TRUE
        answer(status, prev) ==
            notifResp' = NotifResp(op, status, userID, id, prev)
    IN
    /\ UNCHANGED notificationSeq
    /\ IF found = {}
       THEN answer(404, FALSE) /\ UNCHANGED <<notifications, markedRead>>
       ELSE IF n.owner_id # userID
       THEN answer(403, n.status) /\ UNCHANGED <<notifications, markedRead>>
       ELSE /\ notifications' = marked.rows
            /\ markedRead' = IF op = "markRead" /\ marked.err = ""
                              THEN markedRead \cup {id} ELSE markedRead
            /\ answer(IF marked.err = "" THEN 200 ELSE 404, n.status)

\* PUT /notifications/{notification_id}/read for the authenticated user userID
HandleMarkNotificationAsRead(userID, id) ==
    MarkNotification("markRead", userID, id, MarkRead(notifications, id))

\* PUT /notifications/{notification_id}/unread for the authenticated user userID
HandleMarkNotificationAsUnread(userID, id) ==
    MarkNotification("markUnread", userID, id, MarkUnread(notifications, id))

\* what the three listing handlers do with the repository's result
ListNotifications(op, userID, listed) ==
    /\ UNCHANGED <<notifications, notificationSeq, markedRead>>
    /\ notifResp' = IF listed.err # ""
                    THEN NotifResp(op, 500, userID, 0, FALSE)
                    ELSE [NotifResp(op, 200, userID, 0, FALSE) EXCEPT !.list = listed.list]

\* GET /notifications for the authenticated user userID
HandleGetAllUserNotifications(userID, limit, offset) ==
    ListNotifications("listAll", userID, ListByOwner(notifications, userID, limit, offset))

\* GET /notifications/read for the authenticated user userID
HandleGetAllReadNotifications(userID, limit, offset) ==
    ListNotifications("listRead", userID,
                      ListByOwnerAndStatus(notifications, userID, TRUE, limit, offset))

\* GET /notifications/unread for the authenticated user userID
HandleGetAllUnreadNotifications(userID, limit, offset) ==
    ListNotifications("listUnread", userID,
                      ListByOwnerAndStatus(notifications, userID, FALSE, limit, offset))

\* the client has read the response; the model sends its next request after that
NotifResponseRead ==
    /\ notifResp # NoNotifResp
    /\ notifResp' = NoNotifResp
    /\ UNCHANGED <<notifications, notificationSeq, markedRead>>

NotifIdle ==
    notifResp = NoNotifResp /\ UNCHANGED <<authVars, reactVars, reactWorkers, memberVars, contentVars>>

NextNotif ==
    \/ NotifIdle /\ \E u \in Actors, a \in Actors, st \in BOOLEAN :
                        CreateNotification(u, a, st)
    \/ NotifIdle /\ \E u \in Actors, id \in NotificationIDs :
                        HandleMarkNotificationAsRead(u, id)
    \/ NotifIdle /\ \E u \in Actors, id \in NotificationIDs :
                        HandleMarkNotificationAsUnread(u, id)
    \/ NotifResponseRead /\ UNCHANGED <<authVars, reactVars, reactWorkers, memberVars, contentVars>>

-----------------------------------------------------------------------------
(* Accounts: registering, renaming, logging in and out, deleting, with two    *)
(* accounts that own rows in every table                                      *)

Ann == FirstUserID

Bob == FirstUserID + 1

\* what the two seeded accounts have posted, written, reacted to, joined and
\* been notified of
AccountRows ==
    [posts |->
        {[post_id |-> 1, owner_id |-> Ann, category_id |-> 1, headline |-> "a",
          status |-> FALSE, created_at |-> 0, updated_at |-> 0],
         [post_id |-> 2, owner_id |-> Bob, category_id |-> 1, headline |-> "a",
          status |-> FALSE, created_at |-> 0, updated_at |-> 0]},
     comments |->
        {[comment_id |-> 1, post_id |-> 1, owner_id |-> Bob, parent_comment_id |-> 0,
          text |-> "a", image |-> "", status |-> FALSE, created_at |-> 0,
          updated_at |-> 0],
         [comment_id |-> 2, post_id |-> 2, owner_id |-> Ann, parent_comment_id |-> 0,
          text |-> "a", image |-> "", status |-> FALSE, created_at |-> 0,
          updated_at |-> 0],
         [comment_id |-> 3, post_id |-> 2, owner_id |-> Bob, parent_comment_id |-> 2,
          text |-> "a", image |-> "", status |-> FALSE, created_at |-> 0,
          updated_at |-> 0]},
     reactions |->
        {[reaction_id |-> 1, post_id |-> 2, owner_id |-> Ann, reaction_type_id |-> 1],
         [reaction_id |-> 2, post_id |-> 1, owner_id |-> Bob, reaction_type_id |-> 1],
         [reaction_id |-> 3, post_id |-> 2, owner_id |-> Bob, reaction_type_id |-> 1]},
     commentReactions |->
        {[comment_reaction_id |-> 1, comment_id |-> 2, owner_id |-> Bob,
          reaction_type_id |-> 1],
         [comment_reaction_id |-> 2, comment_id |-> 3, owner_id |-> Ann,
          reaction_type_id |-> 1]},
     memberships |->
        {[membership_id |-> 1, category_id |-> 1, user_id |-> Ann, joined_date |-> 0],
         [membership_id |-> 2, category_id |-> 1, user_id |-> Bob, joined_date |-> 0]},
     notifications |->
        {[notification_id |-> 1, owner_id |-> Ann, actor_id |-> Bob, status |-> FALSE],
         [notification_id |-> 2, owner_id |-> Bob, actor_id |-> Ann, status |-> FALSE],
         [notification_id |-> 3, owner_id |-> Bob, actor_id |-> Bob, status |-> FALSE]}]

InitAccounts ==
    /\ renaming = NoRename
    /\ now = 1
    /\ users = SeededUsers
    /\ userSeq = Bob
    /\ tokens = {}
    /\ tokenSeq = 0
    /\ issued = {}
    /\ revoked = {}
    /\ orphaned = {}
    /\ authResp = NoResp
    /\ posts = AccountRows.posts
    /\ postSeq = Cardinality(AccountRows.posts)
    /\ comments = AccountRows.comments
    /\ commentSeq = Cardinality(AccountRows.comments)
    /\ reactions = AccountRows.reactions
    /\ reactionSeq = Cardinality(AccountRows.reactions)
    /\ commentReactions = AccountRows.commentReactions
    /\ commentReactionSeq = Cardinality(AccountRows.commentReactions)
    /\ reactResp = NoReactResp
    /\ contentResp = NoContentResp
    /\ InitUpdateWorkers
    /\ InitReactWorkers
    /\ categories = {[category_id |-> i, category |-> CategoryName(i)] : i \in 1..MaxCategories}
    /\ memberships = AccountRows.memberships
    /\ membershipSeq = Cardinality(AccountRows.memberships)
    /\ subscribers = [w \in Subscribers |-> SubscriberIdle]
    /\ notifications = AccountRows.notifications
    /\ notificationSeq = Cardinality(AccountRows.notifications)
    /\ notifResp = NoNotifResp
    /\ markedRead = {}

\* UserRepository.UpdateUsername: UPDATE users SET username = $2 WHERE user_id = $1;
\* username is UNIQUE
UserUpdateUsername(us, id, username) ==
    IF UserGetByID(us, id) = {}
    THEN [err |-> "ErrNoRows", users |-> us]
    ELSE IF \E x \in us : x.user_id # id /\ x.username = username
    THEN [err |-> "duplicate", users |-> us]
    ELSE [err |-> "",
          users |-> {IF x.user_id = id THEN [x EXCEPT !.username = username] ELSE x :
                     x \in us}]

\* the usernames PUT /user/username carries
RequestedUsernames == Usernames \cup {""}

\* the headers the clients of these accounts send: none, or a token they were given
SessionHeaders == {NoHeader} \cup {Header("Bearer", t) : t \in IssuedTokens}

\* PUT /user/username behind AuthMiddleware, up to and with userRepo.GetByID
UpdateUsernameBegin(h, username) ==
    LET m == AuthMiddleware(h, now, tokens)
        answer(status, message, userID) ==
            /\ authResp' = Resp("updateUsername", status, message, h, userID)
            /\ UNCHANGED renaming
    IN
    /\ renaming = NoRename
    /\ UNCHANGED <<now, users, userSeq, tokens, tokenSeq, issued, revoked, orphaned>>
    /\ IF ~m.pass
       THEN answer(m.status, m.message, 0)
       ELSE IF username = ""
       THEN answer(422, "username is required", m.userID)
       ELSE IF UserGetByID(users, m.userID) = {}
       THEN answer(404, "user not found", m.userID)
       ELSE /\ renaming' = [pc |-> "got", h |-> h, userID |-> m.userID,
                            username |-> username]
            /\ UNCHANGED authResp

\* PUT /user/username from userRepo.UpdateUsername on
UpdateUsernameStore ==
    LET up == UserUpdateUsername(users, renaming.userID, renaming.username)
        answer(status, message) ==
            authResp' = Resp("updateUsername", status, message, renaming.h, renaming.userID)
    IN
    /\ renaming.pc = "got"
    /\ renaming' = NoRename
    /\ UNCHANGED <<now, userSeq, tokens, tokenSeq, issued, revoked, orphaned>>
    /\ users' = up.users
    /\ IF up.err = "duplicate"
       THEN answer(409, "username already exists")
       ELSE IF up.err # ""
       THEN answer(500, "failed to update username")
       ELSE answer(200, "")

\* tokens and user ids are handed out up to a bound
SessionsLeft == Cardinality(issued) < MaxSessions

RegistrationsLeft == userSeq < Bob + MaxRegistrations

NextAccounts ==
    \/ AuthIdle /\ RegistrationsLeft /\ \E req \in RegisterRequests :
                      HandleRegister(req) /\ (issued' # issued => SessionsLeft)
    \/ AuthIdle /\ \E req \in LoginRequests :
                      HandleLogin(req) /\ (issued' # issued => SessionsLeft)
    \/ AuthIdle /\ \E h \in SessionHeaders : HandleVerifyAuth(h)
    \/ AuthIdle /\ \E h \in SessionHeaders : HandleLogOut(h)
    \/ DeleteAccountIdle /\ \E h \in SessionHeaders : HandleDeleteAccount(h)
    \/ AuthIdle /\ \E h \in SessionHeaders, n \in RequestedUsernames :
                      UpdateUsernameBegin(h, n)
    \/ AuthIdle /\ UpdateUsernameStore
    \/ AuthResponseRead /\ UNCHANGED <<reactVars, reactWorkers, memberVars, notifVars, contentVars>>

-----------------------------------------------------------------------------
(* Specifications *)

Init ==
    /\ InitAuth /\ InitReact /\ InitReactWorkers /\ InitMemberships /\ InitNotifications
    /\ InitContent

SpecAuth == Init /\ [][NextAuth]_vars

\* the accounts are registered and signed out before the subscribe requests arrive
InitMember ==
    /\ renaming = NoRename
    /\ now = 1
    /\ users = SeededUsers
    /\ userSeq = FirstUserID + 1
    /\ tokens = {}
    /\ tokenSeq = 0
    /\ issued = {}
    /\ revoked = {}
    /\ orphaned = {}
    /\ authResp = NoResp
    /\ InitReact
    /\ InitReactWorkers
    /\ InitMemberships
    /\ InitNotifications
    /\ InitContent

SpecReact == Init /\ [][NextReact]_vars

SpecReactConc == Init /\ [][NextReactConc]_vars

SpecMember == InitMember /\ [][NextMember]_vars

SpecNotif == Init /\ [][NextNotif]_vars

SpecContent == Init /\ [][NextContent]_vars

SpecCascade == Init /\ [][NextCascade]_vars

\* the owner-guarded requests on posts, comments and notifications, one at a time
GuardedContentIdle == ContentIdle /\ notifResp = NoNotifResp

GuardedNotifIdle == NotifIdle /\ contentResp = NoContentResp

NextGuarded ==
    \/ GuardedContentIdle /\ \E u \in Actors, id \in ContentPostIDs, h \in Contents :
                          HandleUpdatePost(u, id, h)
    \/ GuardedContentIdle /\ \E u \in Actors, id \in ContentPostIDs :
                          HandleDeletePost(u, id)
    \/ GuardedContentIdle /\ \E u \in Actors, id \in ContentCommentIDs, t \in Contents :
                          HandleUpdateComment(u, id, t)
    \/ GuardedContentIdle /\ \E u \in Actors, id \in ContentCommentIDs :
                          HandleDeleteComment(u, id)
    \/ GuardedNotifIdle /\ \E u \in Actors, a \in Actors, st \in BOOLEAN :
                          CreateNotification(u, a, st)
    \/ GuardedNotifIdle /\ \E u \in Actors, id \in NotificationIDs :
                          HandleMarkNotificationAsRead(u, id)
    \/ GuardedNotifIdle /\ \E u \in Actors, id \in NotificationIDs :
                          HandleMarkNotificationAsUnread(u, id)
    \/ ContentResponseRead /\ UNCHANGED <<authVars, reactWorkers, memberVars, notifVars>>
    \/ NotifResponseRead /\ UNCHANGED <<authVars, reactVars, reactWorkers, memberVars, contentVars>>

SpecGuarded == Init /\ [][NextGuarded]_vars

SpecAccounts == InitAccounts /\ [][NextAccounts]_vars

\* registrations and logins where the INSERT into tokens may not be carried out
NextRegister ==
    \/ AuthIdle /\ UsersLeft /\ \E req \in RegisterRequests, tokenStored \in BOOLEAN :
                      HandleRegisterUnder(req, tokenStored) /\ (issued' # issued => SessionsLeft)
    \/ AuthIdle /\ \E req \in LoginRequests :
                      HandleLogin(req) /\ (issued' # issued => SessionsLeft)
    \/ AuthIdle /\ \E h \in AuthHeaders : HandleVerifyAuth(h)
    \/ AuthResponseRead /\ UNCHANGED <<reactVars, reactWorkers, memberVars, notifVars, contentVars>>

SpecRegister == Init /\ [][NextRegister]_vars

\* the bodies the concurrent update requests carry: a new text with no image
\* field, and an image with no text field
UpdateRequests == {[Text |-> "b", Image |-> NilImage], [Text |-> "", Image |-> "i"]}

UpdateWorkerDone(userID, commentID, req, status) ==
    [pc |-> "done", userID |-> userID, commentID |-> commentID, req |-> req,
     comment |-> {}, status |-> status]

\* PUT /comments/{comment_id}, up to and with commentRepo.GetByID and the owner
\* comparison; the row read stays in the request's comment variable
UpdateCommentGetByID(w, userID, commentID, req) ==
    LET found == CommentGetByID(comments, commentID)
        comment == CHOOSE x \in found : TRUE
    IN
    /\ updateWorkers[w].pc = "idle"
    /\ updateWorkers' =
          [updateWorkers EXCEPT ![w] =
              IF found = {} THEN UpdateWorkerDone(userID, commentID, req, 404)
              ELSE IF comment.owner_id # userID
              THEN UpdateWorkerDone(userID, commentID, req, 403)
              ELSE [pc |-> "update", userID |-> userID, commentID |-> commentID,
                    req |-> req, comment |-> found, status |-> 0]]
    /\ UNCHANGED <<reactVars, postSeq, commentSeq, contentResp>>

\* the rest of the handler: the request's fields are laid over the row read,
\* and commentRepo.Update writes the text and the image of the result
UpdateCommentUpdate(w) ==
    LET wk == updateWorkers[w]
        comment == CHOOSE x \in wk.comment : TRUE
        up == CommentUpdate(comments,
                            [ID |-> comment.comment_id,
                             Text |-> IF wk.req.Text # "" THEN wk.req.Text
                                      ELSE comment.text,
                             Image |-> IF wk.req.Image # NilImage THEN wk.req.Image
                                       ELSE comment.image],
                            now)
    IN
    /\ wk.pc = "update"
    /\ comments' = up.rows
    /\ updateWorkers' =
          [updateWorkers EXCEPT ![w] =
              UpdateWorkerDone(wk.userID, wk.commentID, wk.req,
                               IF up.err # "" THEN 500 ELSE 200)]
    /\ UNCHANGED <<posts, reactions, reactionSeq, commentReactions, commentReactionSeq,
                   reactResp, postSeq, commentSeq, contentResp>>

NextUpdateConc ==
    \/ \E w \in UpdateWorkers, u \in Actors, id \in ContentCommentIDs, req \in UpdateRequests :
          UpdateCommentGetByID(w, u, id, req)
             /\ UNCHANGED <<authVars, reactWorkers, memberVars, notifVars>>
    \/ \E w \in UpdateWorkers :
          UpdateCommentUpdate(w) /\ UNCHANGED <<authVars, reactWorkers, memberVars, notifVars>>

SpecUpdateConc == Init /\ [][NextUpdateConc]_vars

\* the notification endpoints with the three listings
NextNotifList ==
    \/ NotifIdle /\ \E u \in Actors, a \in Actors, st \in BOOLEAN :
                        CreateNotification(u, a, st)
    \/ NotifIdle /\ \E u \in Actors, id \in NotificationIDs :
                        HandleMarkNotificationAsRead(u, id)
    \/ NotifIdle /\ \E u \in Actors, id \in NotificationIDs :
                        HandleMarkNotificationAsUnread(u, id)
    \/ NotifIdle /\ \E u \in Actors, l \in RequestedLimits, o \in RequestedOffsets :
                        HandleGetAllUserNotifications(u, l, o)
    \/ NotifIdle /\ \E u \in Actors, l \in RequestedLimits, o \in RequestedOffsets :
                        HandleGetAllReadNotifications(u, l, o)
    \/ NotifIdle /\ \E u \in Actors, l \in RequestedLimits, o \in RequestedOffsets :
                        HandleGetAllUnreadNotifications(u, l, o)
    \/ NotifResponseRead /\ UNCHANGED <<authVars, reactVars, reactWorkers, memberVars, contentVars>>

SpecNotifList == Init /\ [][NextNotifList]_vars

\* the {user_id} path values the model sends: both accounts, an id no user has,
\* and a text that is not a number
RequestedUserIDs == {FormatInt(Ann), FormatInt(Bob), FormatInt(Bob + 1), <<"x">>}

\* the body HandleGetAccount writes for user id over the users table us
GetAccountBody(us, id) == UserResponse(CHOOSE u \in UserGetByID(us, id) : TRUE)

\* GET /users/{user_id} behind AuthMiddleware
HandleGetAccount(h, userIDStr) ==
    LET m == AuthMiddleware(h, now, tokens)
        p == ParseInt(userIDStr)
        answer(status, message) == Resp("getAccount", status, message, h, m.userID)
    IN
    /\ UNCHANGED <<now, users, userSeq, tokens, tokenSeq, issued, revoked, orphaned,
                   renaming>>
    /\ authResp' =
          IF ~m.pass THEN answer(m.status, m.message)
          ELSE IF ~p.ok THEN answer(400, "invalid user_id")
          ELSE IF UserGetByID(users, p.val) = {} THEN answer(404, "user not found")
          ELSE [answer(200, "") EXCEPT !.body = GetAccountBody(users, p.val)]

NextProfile ==
    \/ AuthIdle /\ \E req \in LoginRequests :
                      HandleLogin(req) /\ (issued' # issued => SessionsLeft)
    \/ AuthIdle /\ \E h \in SessionHeaders, id \in RequestedUserIDs : HandleGetAccount(h, id)
    \/ AuthIdle /\ \E h \in SessionHeaders : HandleLogOut(h)
    \/ AuthResponseRead /\ UNCHANGED <<reactVars, reactWorkers, memberVars, notifVars, contentVars>>

SpecProfile == InitAccounts /\ [][NextProfile]_vars

\* Subject claims of a signed and stored token: empty, not a number, zero,
\* signed zero, negative, and a user's id
StoredSubjects ==
    {<<>>, <<"x">>, <<"0">>, <<"+", "0">>, <<"-", "1">>, <<"-", "1", "0">>,
     FormatInt(FirstUserID)}

\* the string signed with the server's secret over subject sub, and its row
SignedWithSubject(sub) ==
    SignedString([sub |-> sub, exp |-> NewNumericDate(1 + TokenLifetime),
                  iat |-> NewNumericDate(1), jti |-> 1], JWTSecret)

\* the tokens table holds one unexpired row whose string carries subject sub
InitValidate ==
    /\ InitReact /\ InitReactWorkers /\ InitMemberships /\ InitNotifications
    /\ InitContent
    /\ renaming = NoRename
    /\ now = 1
    /\ users = {[user_id |-> FirstUserID, username |-> "ann", email |-> AnnEmail,
                 password |-> GenerateFromPassword(GoodPassword)]}
    /\ userSeq = FirstUserID
    /\ \E sub \in StoredSubjects :
          tokens = {[token_id |-> 1, user_id |-> FirstUserID,
                     token |-> SignedWithSubject(sub),
                     expires_at |-> 1 + TokenLifetime]}
    /\ tokenSeq = 1
    /\ issued = {}
    /\ revoked = {}
    /\ orphaned = {}
    /\ authResp = NoResp

\* the stored strings, what can be built from them, and no header at all
ValidateHeaders ==
    {NoHeader} \cup {Header("Bearer", r.token) : r \in tokens}
               \cup {Header("Bearer", f) : f \in UNION {Forged(r.token) : r \in tokens}}

NextValidate ==
    \/ AuthIdle /\ Tick
    \/ AuthIdle /\ \E h \in ValidateHeaders : HandleVerifyAuth(h)
    \/ AuthIdle /\ \E h \in ValidateHeaders : HandleLogOut(h)
    \/ AuthResponseRead /\ UNCHANGED <<reactVars, reactWorkers, memberVars, notifVars, contentVars>>

SpecValidate == InitValidate /\ [][NextValidate]_vars

Spec == SpecAuth

\* what AuthMiddleware does now with a request carrying token string t
Present(t) == AuthMiddleware(Header("Bearer", t), now, tokens)

\* the issued tokens no logout and no account deletion has removed
Live == {e \in issued : e.tok \notin revoked \cup orphaned}

-----------------------------------------------------------------------------
(* Properties of the auth core, under SpecAuth *)

\* C1: once a logout has deleted a token's row, AuthMiddleware answers every
\* request carrying that token with 401 Unauthorized, in every later state,
\* whatever the token's signature and exp claim say.
C1_RevokedTokenRejected ==
    /\ \A t \in revoked : ~Present(t).pass /\ Present(t).status = 401
    /\ (/\ authResp.op \in {"verify", "deleteAccount"}
        /\ authResp.genuine
        /\ \E t \in revoked : t.jti = authResp.jti)
       => authResp.status = 401

\* C1 happens: a verify request with a logged-out token was answered 401 while
\* the token's signature and exp claim still verify and its user still exists.
C1_Witness ==
    /\ authResp.op = "verify" /\ authResp.genuine /\ authResp.status = 401
    /\ \E t \in revoked :
          /\ t.jti = authResp.jti
          /\ ParseWithClaims(t, JWTSecret, now)
          /\ \E u \in users : FormatInt(u.user_id) = t.sub

\* C2: a token createToken(u) has just issued (same instant, not logged out,
\* account not deleted) passes AuthMiddleware, and the user id put in the
\* request context is u.
C2_IssuedTokenAccepted ==
    \A e \in Live :
        e.at = now => Present(e.tok).pass /\ Present(e.tok).userID = e.user

\* C2 happens: a verify request with a token issued at this instant for a user
\* with a two-digit id was answered 200 with that id.
C2_Witness ==
    /\ authResp.op = "verify" /\ authResp.genuine /\ authResp.status = 200
    /\ \E e \in Live :
          /\ e.at = now /\ e.tok.jti = authResp.jti
          /\ e.user >= 10 /\ authResp.userID = e.user

\* C3: AuthMiddleware lets a request through only if, at that moment, the
\* token is a JWT signed with the secret by an HMAC method, its exp claim is
\* not in the past, its subject is the id of an existing user, and the tokens
\* table holds a row with exactly that string whose expires_at is not in the
\* past; and a protected handler answers only requests that carried an issued
\* token string.
C3_PassImpliesEveryCheck ==
    /\ \A h \in AuthHeaders :
          AuthMiddleware(h, now, tokens).pass =>
            /\ h.present /\ h.scheme = "Bearer"
            /\ h.token.form = "jwt"
            /\ h.token.key = JWTSecret /\ h.token.alg \in HMACMethods
            /\ h.token.hasExp /\ now <= h.token.exp
            /\ \E u \in users : FormatInt(u.user_id) = h.token.sub
            /\ \E r \in tokens : r.token = h.token /\ now <= r.expires_at
    /\ (authResp.op \in {"verify", "logout", "deleteAccount"} /\ authResp.status # 401)
          => authResp.genuine /\ authResp.userID >= FirstUserID

\* C3 happens: a request with a forged string (signed with the secret, never
\* stored) was turned away while a request with the stored string would pass.
C3_Witness ==
    /\ authResp.op = "verify" /\ ~authResp.genuine /\ authResp.status = 401
    /\ authResp.message = "invalid token"
    /\ \E e \in Live :
          /\ e.tok.jti = authResp.jti
          /\ Present(e.tok).pass
          /\ ~Present([e.tok EXCEPT !.exp = e.tok.exp + TokenLifetime]).pass

\* C4 as stated: the row's expires_at equals the token's exp claim, both are
\* issue time + lifetime, and a token not revoked is accepted at every time up
\* to that expiry and rejected after it.
C4_SameExpiryAcceptedUpToIt ==
    \A e \in issued :
        /\ e.row_expires_at = e.tok.exp
        /\ e.tok.exp = e.at + TokenLifetime
        /\ e \in Live => (Present(e.tok).pass <=> now <= e.at + TokenLifetime)

\* C4 amended: the row's expires_at is issue time + lifetime; the exp claim is
\* that instant cut down to a whole second, so it is at most one second
\* earlier; a token not revoked is accepted at every time strictly before its
\* exp claim and rejected from then on, purged or not.
C4_ExpiryTruncatedToSecond ==
    \A e \in issued :
        /\ e.row_expires_at = e.at + TokenLifetime
        /\ e.tok.exp % TicksPerSecond = 0
        /\ e.tok.exp <= e.row_expires_at
        /\ e.row_expires_at - e.tok.exp < TicksPerSecond
        /\ e \in Live => (Present(e.tok).pass <=> now < e.tok.exp)

\* C4 happens: a verify request with a token that was never revoked was
\* answered 401 between its exp claim and its row's expires_at, the row still
\* being in the store.
C4_Witness ==
    /\ authResp.op = "verify" /\ authResp.genuine /\ authResp.status = 401
    /\ \E e \in Live :
          /\ e.tok.jti = authResp.jti
          /\ e.tok.exp <= now /\ now < e.row_expires_at
          /\ \E r \in tokens : r.token = e.tok

-----------------------------------------------------------------------------
(* Properties of the reaction ledger, under SpecReact *)

\* C5: after any sequence of react requests there is at most one reactions row
\* per (post, owner) and at most one comment_reactions row per (comment, owner);
\* after a recorded reaction exactly one row exists for the pair and it holds
\* the type of that request, whatever type the pair held before.
C5_OneReactionPerActorAndTarget ==
    /\ \A r1, r2 \in reactions :
          (r1.post_id = r2.post_id /\ r1.owner_id = r2.owner_id) => r1 = r2
    /\ \A r1, r2 \in commentReactions :
          (r1.comment_id = r2.comment_id /\ r1.owner_id = r2.owner_id) => r1 = r2
    /\ (reactResp.op = "reactPost" /\ reactResp.status = 200) =>
          LET found == GetByOwnerAndPost(reactions, reactResp.userID, reactResp.target) IN
          Cardinality(found) = 1 /\ TypeOf(found) = reactResp.typeID
    /\ (reactResp.op = "reactComment" /\ reactResp.status = 200) =>
          LET found == GetByOwnerAndComment(commentReactions, reactResp.userID,
                                            reactResp.target) IN
          Cardinality(found) = 1 /\ TypeOf(found) = reactResp.typeID

\* C5 happens: a user who had reacted to a comment with one type reacted to it
\* again with another type, and the pair has one row, of the second type.
C5_Witness ==
    /\ reactResp.op = "reactComment" /\ reactResp.status = 200
    /\ reactResp.prevType \notin {0, reactResp.typeID}
    /\ \E r \in commentReactions :
          /\ r.comment_id = reactResp.target /\ r.owner_id = reactResp.userID
          /\ r.reaction_type_id = reactResp.typeID
          /\ r.comment_reaction_id = reactResp.ID

\* C7: CountByPost(P) is the number of reactions rows on P whatever their type,
\* and that is the number of distinct users reacting to P (likewise Count for a
\* comment); a recorded reaction by a user who already had one on the target
\* leaves the count as it was, and the lookup for that user finds the new type.
C7_CountIsDistinctReactors ==
    /\ \A p \in PostIDs :
          LET on == {r \in reactions : r.post_id = p} IN
          /\ CountByPost(reactions, p) = Cardinality({r.reaction_id : r \in on})
          /\ CountByPost(reactions, p) = Cardinality({r.owner_id : r \in on})
    /\ \A c \in CommentIDs :
          LET on == {r \in commentReactions : r.comment_id = c} IN
          /\ CommentReactionCount(commentReactions, c)
                = Cardinality({r.comment_reaction_id : r \in on})
          /\ CommentReactionCount(commentReactions, c) = Cardinality({r.owner_id : r \in on})
    /\ (reactResp.op = "reactPost" /\ reactResp.status = 200 /\ reactResp.prevType # 0) =>
          /\ CountByPost(reactions, reactResp.target) = reactResp.prevCount
          /\ TypeOf(GetByOwnerAndPost(reactions, reactResp.userID, reactResp.target))
                = reactResp.typeID
    /\ (reactResp.op = "reactComment" /\ reactResp.status = 200 /\ reactResp.prevType # 0) =>
          /\ CommentReactionCount(commentReactions, reactResp.target) = reactResp.prevCount
          /\ TypeOf(GetByOwnerAndComment(commentReactions, reactResp.userID,
                                         reactResp.target)) = reactResp.typeID

\* C7 happens: a user changed the type of their reaction on a post; the count
\* for the post is what it was and the lookup finds the new type.
C7_Witness ==
    /\ reactResp.op = "reactPost" /\ reactResp.status = 200
    /\ reactResp.prevType \notin {0, reactResp.typeID}
    /\ reactResp.prevCount >= 1
    /\ CountByPost(reactions, reactResp.target) = reactResp.prevCount
    /\ TypeOf(GetByOwnerAndPost(reactions, reactResp.userID, reactResp.target))
          = reactResp.typeID

-----------------------------------------------------------------------------
(* Properties of concurrent react requests, under SpecReactConc *)

\* the rows of the table request w writes that belong to w's (owner, target) pair
RowsOfRequest(w) ==
    LET me == reactWorkers[w] IN
    IF me.op = "reactPost"
    THEN GetByOwnerAndPost(reactions, me.userID, me.target)
    ELSE GetByOwnerAndComment(commentReactions, me.userID, me.target)

\* the request of w names an existing target and an existing reaction type
WellFormedRequest(w) ==
    LET me == reactWorkers[w] IN
    /\ me.typeID \in ReactionTypeIDs
    /\ me.op = "reactPost" => me.target \in PostKeys(posts)
    /\ me.op = "reactComment" => me.target \in CommentKeys(comments)

\* C6: when two react requests of the same user on the same post (or the same
\* comment) with different reaction types have both completed, however their
\* steps interleaved, both were answered 200 and the pair has exactly one row,
\* holding the type of one of the two requests.
C6_ConcurrentReactsOneRow ==
    \A w1, w2 \in ReactWorkers :
        LET a == reactWorkers[w1]
            b == reactWorkers[w2]
        IN
        (/\ w1 # w2 /\ a.pc = "done" /\ b.pc = "done"
         /\ a.op = b.op /\ a.userID = b.userID /\ a.target = b.target
         /\ a.typeID # b.typeID
         /\ WellFormedRequest(w1) /\ WellFormedRequest(w2))
        => /\ a.status = 200 /\ b.status = 200
           /\ Cardinality(RowsOfRequest(w1)) = 1
           /\ TypeOf(RowsOfRequest(w1)) \in {a.typeID, b.typeID}

\* C6 happens: two requests of one user on one post with different types were
\* in flight at the same time, both were answered 200 and the pair has one row.
C6_Witness ==
    \E w1, w2 \in ReactWorkers :
        LET a == reactWorkers[w1]
            b == reactWorkers[w2]
        IN
        /\ w1 # w2 /\ a.pc = "done" /\ b.pc = "done"
        /\ a.overlap /\ b.overlap
        /\ a.op = "reactPost" /\ b.op = "reactPost"
        /\ a.userID = b.userID /\ a.target = b.target /\ a.typeID # b.typeID
        /\ a.status = 200 /\ b.status = 200
        /\ Cardinality(RowsOfRequest(w1)) = 1

-----------------------------------------------------------------------------
(* Properties of category memberships, under SpecMember *)

\* the stored rows of the (user, category) pair request w names
RowsOfSubscriber(w) ==
    LET me == subscribers[w]
        found == GetByName(categories, me.category)
    IN
    {r \in memberships : /\ r.user_id = me.userID
                         /\ \E c \in found : r.category_id = c.category_id}

\* C8: memberships holds at most one row per (category, user); when two
\* subscribe requests of one existing user for one existing category have
\* completed, one after the other or interleaved, both were answered 200, the
\* pair has exactly one row, and exactly one of the two requests inserted it:
\* the other changed no stored row.
C8_DuplicateSubscribeIsNoOp ==
    /\ \A r1, r2 \in memberships :
          (r1.category_id = r2.category_id /\ r1.user_id = r2.user_id) => r1 = r2
    /\ \A w1, w2 \in Subscribers :
          LET a == subscribers[w1]
              b == subscribers[w2]
          IN
          (/\ w1 # w2 /\ a.pc = "done" /\ b.pc = "done"
           /\ a.userID = b.userID /\ a.category = b.category
           /\ UserGetByID(users, a.userID) # {}
           /\ GetByName(categories, a.category) # {})
          => /\ a.status = 200 /\ b.status = 200
             /\ Cardinality(RowsOfSubscriber(w1)) = 1
             /\ a.inserted # b.inserted

\* C8 happens: two subscribe requests for one pair were in flight at the same
\* time; both were answered 200, the second Create changed nothing and the pair
\* has one row.
C8_Witness ==
    \E w1, w2 \in Subscribers :
        LET a == subscribers[w1]
            b == subscribers[w2]
        IN
        /\ w1 # w2 /\ a.pc = "done" /\ b.pc = "done"
        /\ a.overlap /\ b.overlap
        /\ a.userID = b.userID /\ a.category = b.category
        /\ a.status = 200 /\ b.status = 200
        /\ a.inserted /\ ~b.inserted
        /\ Cardinality(RowsOfSubscriber(w1)) = 1

\* C9 as stated: the Membership value Create returns for a pair that was
\* already stored carries the membership_id and the joined_date of the stored
\* row of that pair.
C9_DuplicateReturnsStoredRow ==
    \A w \in Subscribers :
        LET me == subscribers[w] IN
        (me.pc = "done" /\ me.status = 200 /\ ~me.inserted) =>
            \E r \in RowsOfSubscriber(w) :
                me.m.ID = r.membership_id /\ me.m.JoinedDate = r.joined_date

-----------------------------------------------------------------------------
(* Properties of the notification flag, under SpecNotif *)

\* C10: whatever mark requests came before, a mark request of the owner for a
\* stored notification is answered 200 and leaves the notification read after
\* HandleMarkNotificationAsRead and unread after HandleMarkNotificationAsUnread,
\* also when it already had that status.
C10_LastMarkDecides ==
    \A n \in notifications :
        (/\ notifResp.op \in {"markRead", "markUnread"}
         /\ n.notification_id = notifResp.id
         /\ n.owner_id = notifResp.userID)
        => /\ notifResp.status = 200
           /\ n.status = (notifResp.op = "markRead")

\* C10 happens: the owner marked read a notification that was already read; the
\* call was answered 200 and the notification is read.
C10_Witness ==
    \E n \in notifications :
        /\ notifResp.op = "markRead" /\ notifResp.status = 200
        /\ n.notification_id = notifResp.id /\ n.owner_id = notifResp.userID
        /\ notifResp.prevStatus /\ n.status

\* C11 as stated: whatever the caller of Create supplied, a stored notification
\* that no MarkRead has updated is unread.
C11_CreatedUnread ==
    \A n \in notifications : n.notification_id \notin markedRead => ~n.status

\* C13: a mark request for a stored notification by a user who is not its
\* owner, its actor included, is answered 403 and the notification keeps the
\* status it had.
C13_OnlyOwnerMarks ==
    \A n \in notifications :
        (/\ notifResp.op \in {"markRead", "markUnread"}
         /\ n.notification_id = notifResp.id
         /\ n.owner_id # notifResp.userID)
        => /\ notifResp.status = 403
           /\ n.status = notifResp.prevStatus

\* C13 happens: the actor of an unread notification owned by someone else asked
\* to mark it read, was answered 403, and the notification is still unread.
C13_Witness ==
    \E n \in notifications :
        /\ notifResp.op = "markRead" /\ notifResp.status = 403
        /\ n.notification_id = notifResp.id
        /\ n.actor_id = notifResp.userID /\ n.owner_id # n.actor_id
        /\ ~notifResp.prevStatus /\ ~n.status

-----------------------------------------------------------------------------
(* Owner-only update and delete of posts and comments *)

\* the responses of the four handlers that change or remove a stored post or comment
MutationOps == {"updatePost", "deletePost", "updateComment", "deleteComment"}

\* response r answers a request on a stored post or comment of another user
ByNonOwner(r) ==
    /\ r.op \in MutationOps
    /\ r.prev # {}
    /\ \A x \in r.prev : x.owner_id # r.userID

\* every row of posts and comments is what it was before the step
RecordsUnchanged == posts' = posts /\ comments' = comments

\* a post that is changed or gone after a step was named by its owner's request;
\* a comment likewise, or its post went with that step, or the comment it
\* replied to did
OnlyOwnerChanges ==
    /\ \A x \in posts : x \notin posts' =>
            /\ contentResp'.op \in {"updatePost", "deletePost"}
            /\ contentResp'.id = x.post_id
            /\ contentResp'.userID = x.owner_id
    /\ \A c \in comments : c \notin comments' =>
            \/ /\ contentResp'.op \in {"updateComment", "deleteComment"}
               /\ contentResp'.id = c.comment_id
               /\ contentResp'.userID = c.owner_id
            \/ /\ contentResp'.op = "deletePost"
               /\ contentResp'.id = c.post_id
               /\ c.post_id \notin PostKeys(posts')
            \/ /\ contentResp'.op = "deleteComment"
               /\ contentResp'.id = c.parent_comment_id
               /\ c.parent_comment_id \notin CommentKeys(comments')

\* C12 as stated: every update or delete of an existing post or comment by a
\* user who is not its owner is answered 403 Forbidden and leaves the stored
\* records as they were, and posts and comments only change by their owner's
\* requests or by cascade.
C12_NonOwnerAlwaysForbidden ==
    [][/\ ByNonOwner(contentResp') => contentResp'.status = 403 /\ RecordsUnchanged
       /\ OnlyOwnerChanges]_vars

\* C12, amended: an update or delete of an existing post or comment by a user
\* who is not its owner leaves the stored records as they were and is answered
\* 403 Forbidden, except that an update of a post with no headline is answered 422
\* Validation before the owner is looked at; posts and comments only change by
\* their owner's requests or by cascade from the deletion of the post or of the
\* comment replied to.
C12_NonOwnerChangesNothing ==
    [][/\ ByNonOwner(contentResp') =>
            /\ RecordsUnchanged
            /\ \/ contentResp'.status = 403
               \/ /\ contentResp'.op = "updatePost"
                  /\ contentResp'.status = 422
                  /\ contentResp'.message = "headline is required"
       /\ OnlyOwnerChanges]_vars

\* a user who does not own a stored post has asked to update it with a headline,
\* after the post's owner had updated it: the answer is 403 and the row is the
\* one found
C12_Witness ==
    /\ contentResp.op = "updatePost" /\ contentResp.status = 403
    /\ ByNonOwner(contentResp)
    /\ PostGetByID(posts, contentResp.id) = contentResp.prev
    /\ \E x \in contentResp.prev : x.status

-----------------------------------------------------------------------------
(* The edited flag (the status column of posts and comments) *)

\* C19: across every step, a post or comment that appears is stored with the
\* edited flag false; after an update answered 200 the row named has the flag
\* true; a flag that is true stays true while the row exists; and an update
\* answered anything else leaves every post and comment as it was.
C19_EditedFlagSetOnceByUpdate ==
    [][/\ \A y \in posts' : y.post_id \notin PostKeys(posts) => ~y.status
       /\ \A y \in comments' : y.comment_id \notin CommentKeys(comments) => ~y.status
       /\ (contentResp'.op = "updatePost" /\ contentResp'.status = 200) =>
              /\ PostGetByID(posts', contentResp'.id) # {}
              /\ \A y \in PostGetByID(posts', contentResp'.id) : y.status
       /\ (contentResp'.op = "updateComment" /\ contentResp'.status = 200) =>
              /\ CommentGetByID(comments', contentResp'.id) # {}
              /\ \A y \in CommentGetByID(comments', contentResp'.id) : y.status
       /\ \A x \in posts, y \in posts' : (x.post_id = y.post_id /\ x.status) => y.status
       /\ \A x \in comments, y \in comments' :
              (x.comment_id = y.comment_id /\ x.status) => y.status
       /\ (contentResp'.op \in {"updatePost", "updateComment"} /\ contentResp'.status # 200)
              => posts' = posts /\ comments' = comments]_vars

\* a post created through HandleCreatePost, stored with the flag false, has just
\* been updated by its owner and now has the flag true
C19_Witness ==
    /\ contentResp.op = "updatePost" /\ contentResp.status = 200
    /\ contentResp.id > MaxPosts
    /\ \E x \in contentResp.prev : ~x.status /\ x.owner_id = contentResp.userID
    /\ \E y \in PostGetByID(posts, contentResp.id) : y.status

-----------------------------------------------------------------------------
(* What an Internal answer tells the caller *)

\* the texts the storage layer returns as errors
StorageErrorTexts == {StorageErrorText, "pq: foreign key violation", "ErrNoRows"}

\* C20: an answer of kind Internal (500) from a post or comment endpoint never
\* carries the text of the storage error as its message.
C20_InternalHidesStorageText ==
    contentResp.status = 500 => contentResp.message \notin StorageErrorTexts

-----------------------------------------------------------------------------
(* Deleting a post takes its comments and reactions with it *)

\* the ids of the posts that were stored and are not any more: post ids come from
\* a sequence and are never handed out twice
DeletedPostIDs == (1..postSeq) \ PostKeys(posts)

\* C18: no comment and no post reaction refers to a deleted post, no comment
\* reaction to a comment of a deleted post; every comment refers to a stored
\* post (and replies to a stored comment or to none), every post reaction to a
\* stored post and every comment reaction to a stored comment.
C18_DeleteCascades ==
    /\ \A c \in comments :
          /\ c.post_id \notin DeletedPostIDs
          /\ c.post_id \in PostKeys(posts)
          /\ c.parent_comment_id \in CommentKeys(comments) \cup {0}
    /\ \A r \in reactions :
          r.post_id \notin DeletedPostIDs /\ r.post_id \in PostKeys(posts)
    /\ \A r \in commentReactions :
          /\ r.comment_id \in CommentKeys(comments)
          /\ \A c \in CommentGetByID(comments, r.comment_id) : c.post_id \notin DeletedPostIDs

\* post 1 has just been deleted by its owner: the one reaction stored on it,
\* the seeded comment on it and the one reaction stored on that comment are gone
C18_Witness ==
    /\ contentResp.op = "deletePost" /\ contentResp.status = 200 /\ contentResp.id = 1
    /\ PostKeys(posts) = PostKeys(SeededPosts) \ {1}
    /\ reactionSeq = 1 /\ reactions = {}
    /\ commentReactionSeq = 1 /\ commentReactions = {}
    /\ CommentGetByID(SeededComments, 1) # {} /\ CommentGetByID(comments, 1) = {}

-----------------------------------------------------------------------------
(* Usernames and emails are unique *)

\* no two rows of users share an id, a username or an email
UniqueUsers(us) ==
    \A x, y \in us :
        x # y => /\ x.user_id # y.user_id
                 /\ x.username # y.username
                 /\ x.email # y.email

\* a registration that passes HandleRegister's checks of the body
ValidRegistration(req) ==
    req.Username # "" /\ isValidEmail(req.Email) /\ Len(req.Password) >= 8

\* C14: usernames and emails stay unique across every step; a valid registration
\* whose username and email nobody holds adds exactly that one user and is
\* answered 200, one whose username or email is held is answered 409 and adds
\* nothing; a username update to a name another user holds, by a user still
\* stored, is answered 409 and leaves every user as it was.
C14_UsernamesAndEmailsUnique ==
    [][/\ UniqueUsers(users) /\ UniqueUsers(users')
       /\ \A req \in RegisterRequests :
             (HandleRegister(req) /\ ValidRegistration(req)) =>
                IF \E x \in users : x.username = req.Username \/ x.email = req.Email
                THEN authResp'.status = 409 /\ users' = users
                ELSE /\ authResp'.status = 200
                     /\ \E u \in users' :
                           /\ u \notin users /\ users' = users \cup {u}
                           /\ u.username = req.Username /\ u.email = req.Email
       /\ (/\ UpdateUsernameStore
           /\ UserGetByID(users, renaming.userID) # {}
           /\ \E x \in users : x.user_id # renaming.userID
                                 /\ x.username = renaming.username)
             => authResp'.status = 409 /\ users' = users]_vars

\* a registration has just been answered 409 while a user that an earlier
\* registration created is stored
C14_Witness ==
    /\ authResp.op = "register" /\ authResp.status = 409
    /\ \E u \in users : u.user_id > Bob
    /\ UniqueUsers(users)

-----------------------------------------------------------------------------
(* What a failed login tells the caller *)

\* UserRepository.GetByEmail when the request has an email, GetByUsername otherwise
LoginLookup(req) ==
    IF req.Email # <<>> THEN GetByEmail(users, req.Email)
    ELSE GetByUsername(users, req.Username)

\* 401 Unauthorized "invalid credentials", with no token
CredentialsRejected ==
    [op |-> "login", status |-> 401, message |-> "invalid credentials", userID |-> 0,
     jti |-> 0, genuine |-> FALSE, body |-> NoBody]

\* C15: a login whose identifier no user has and a login with a wrong password
\* for a stored user get the same response, 401 "invalid credentials", and no
\* token is created.
C15_LoginFailuresAlike ==
    [][\A req \in LoginRequests :
          (/\ HandleLogin(req)
           /\ req.Password # <<>>
           /\ req.Email # <<>> \/ req.Username # ""
           /\ \/ LoginLookup(req) = {}
              \/ \E u \in LoginLookup(req) :
                    ~CompareHashAndPassword(u.password, req.Password))
          => /\ authResp' = CredentialsRejected
             /\ UNCHANGED <<tokens, tokenSeq, issued>>]_vars

\* a login has been answered 401 "invalid credentials" while every username and
\* email the requests carry belongs to a stored user: the password was wrong
C15_Witness ==
    /\ authResp = CredentialsRejected
    /\ \A req \in LoginRequests :
          (req.Email # <<>> \/ req.Username # "") => LoginLookup(req) # {}

-----------------------------------------------------------------------------
(* Logout removes one session *)

\* C16: a logout answered 200 removes exactly the row of the token presented,
\* and every other issued token is accepted after it exactly if it was before;
\* a logout answered anything else is answered 401 or 404 and leaves the token
\* rows as they were, and so is a logout with a token an earlier logout removed;
\* no logout changes a user.
C16_LogoutRemovesOneRow ==
    [][authResp'.op = "logout" =>
         /\ users' = users
         /\ IF authResp'.status = 200
            THEN /\ authResp'.genuine
                 /\ \E r \in tokens :
                       r.token.jti = authResp'.jti /\ tokens' = tokens \ {r}
                 /\ \A e \in issued :
                       e.tok.jti # authResp'.jti =>
                          AuthMiddleware(Header("Bearer", e.tok), now, tokens').pass
                             = AuthMiddleware(Header("Bearer", e.tok), now, tokens).pass
            ELSE authResp'.status \in {401, 404} /\ tokens' = tokens
         /\ (authResp'.genuine /\ \E t \in revoked : t.jti = authResp'.jti)
               => authResp'.status \in {401, 404} /\ tokens' = tokens]_vars

\* a token an earlier logout removed has been presented to logout again and is
\* answered 401, while another token of the same user is still accepted
C16_Witness ==
    /\ authResp.op = "logout" /\ authResp.status = 401 /\ authResp.genuine
    /\ \E e \in issued, f \in issued :
          /\ e.tok.jti = authResp.jti /\ e.tok \in revoked
          /\ f # e /\ f.user = e.user /\ Present(f.tok).pass

-----------------------------------------------------------------------------
(* Deleting an account *)

\* the ids of the users that were stored and are not any more: user ids come from
\* a sequence and are never handed out twice
DeletedUserIDs == (FirstUserID..userSeq) \ {u.user_id : u \in users}

\* C17: no token row, post, comment, reaction, comment reaction, membership or
\* notification of a deleted user is stored, and no token issued to a deleted
\* user is accepted, whoever has registered since.
C17_DeletedAccountLeavesNothing ==
    \A id \in DeletedUserIDs :
        /\ \A r \in tokens : r.user_id # id
        /\ \A x \in posts \cup comments \cup reactions \cup commentReactions
                    \cup notifications : x.owner_id # id
        /\ \A x \in memberships : x.user_id # id
        /\ \A e \in issued : e.user = id => ~Present(e.tok).pass

\* ann's account was deleted and a new account has registered as ann; the token
\* issued to the deleted account has just been presented and is answered 401
C17_Witness ==
    /\ authResp.op = "verify" /\ authResp.status = 401 /\ authResp.genuine
    /\ \E e \in issued : /\ e.tok.jti = authResp.jti /\ e.user = Ann
                          /\ e.tok \in orphaned
    /\ Ann \in DeletedUserIDs
    /\ \E u \in users : u.username = "ann" /\ u.email = AnnEmail /\ u.user_id > Bob
    /\ \E x \in posts : x.owner_id = Bob

-----------------------------------------------------------------------------
(* When a react request fails *)

\* C21: across every step, a react request that names a stored post or comment
\* and a stored reaction type is answered 200 and the caller's row on that
\* target has that type afterwards; any other react request is answered with an
\* error and every reaction row is what it was.
C21_ReactFailsOnlyOnBadReference ==
    [][/\ reactResp'.op = "reactPost" =>
             IF reactResp'.target \in PostKeys(posts)
                /\ reactResp'.typeID \in ReactionTypeIDs
             THEN /\ reactResp'.status = 200
                  /\ TypeOf(GetByOwnerAndPost(reactions', reactResp'.userID,
                                              reactResp'.target)) = reactResp'.typeID
             ELSE /\ reactResp'.status >= 400
                  /\ reactions' = reactions /\ commentReactions' = commentReactions
       /\ reactResp'.op = "reactComment" =>
             IF reactResp'.target \in CommentKeys(comments)
                /\ reactResp'.typeID \in ReactionTypeIDs
             THEN /\ reactResp'.status = 200
                  /\ TypeOf(GetByOwnerAndComment(commentReactions', reactResp'.userID,
                                                 reactResp'.target)) = reactResp'.typeID
             ELSE /\ reactResp'.status >= 400
                  /\ reactions' = reactions /\ commentReactions' = commentReactions]_vars

\* a user has reacted to a stored post with the type its row already had, and
\* is answered 200
C21_Witness ==
    /\ reactResp.op = "reactPost" /\ reactResp.status = 200
    /\ reactResp.prevType = reactResp.typeID
    /\ reactResp.target \in PostKeys(posts)

-----------------------------------------------------------------------------
(* What an upsert that replaces a reaction changes *)

\* C25: across every step in which a react request is answered 200 and the
\* caller already had a row on the target, that row keeps its id, target and
\* owner and takes the requested type, the id the upsert returns is that row's
\* id, and every other reaction row is what it was.
C25_ReplacementKeepsRowIdentity ==
    [][/\ (reactResp'.op = "reactPost" /\ reactResp'.status = 200
           /\ reactResp'.prevType # 0) =>
             \E old \in GetByOwnerAndPost(reactions, reactResp'.userID, reactResp'.target) :
                /\ reactions' = (reactions \ {old}) \cup
                                 {[old EXCEPT !.reaction_type_id = reactResp'.typeID]}
                /\ reactResp'.ID = old.reaction_id
                /\ commentReactions' = commentReactions
       /\ (reactResp'.op = "reactComment" /\ reactResp'.status = 200
           /\ reactResp'.prevType # 0) =>
             \E old \in GetByOwnerAndComment(commentReactions, reactResp'.userID,
                                              reactResp'.target) :
                /\ commentReactions' = (commentReactions \ {old}) \cup
                                 {[old EXCEPT !.reaction_type_id = reactResp'.typeID]}
                /\ reactResp'.ID = old.comment_reaction_id
                /\ reactions' = reactions]_vars

\* a user's reaction on a post has just been replaced by one of another type:
\* the row has the id it was inserted with, although the sequence has moved on
C25_Witness ==
    /\ reactResp.op = "reactPost" /\ reactResp.status = 200
    /\ reactResp.prevType # 0 /\ reactResp.prevType # reactResp.typeID
    /\ reactResp.ID < reactionSeq
    /\ \E r \in GetByOwnerAndPost(reactions, reactResp.userID, reactResp.target) :
          r.reaction_id = reactResp.ID /\ r.reaction_type_id = reactResp.typeID

-----------------------------------------------------------------------------
(* Replies and the post of their parent *)

-----------------------------------------------------------------------------
(* NotFound and Forbidden in the owner-guarded requests *)

\* the stored rows a guarded request names, before the step that answers it
NamedByContentRequest ==
    IF contentResp'.op \in {"updatePost", "deletePost"}
    THEN PostGetByID(posts, contentResp'.id)
    ELSE CommentGetByID(comments, contentResp'.id)

NamedByNotifRequest == NotificationGetByID(notifications, notifResp'.id)

\* the answer is 404 exactly when nothing is stored under the id, and 403
\* exactly when a row is stored and belongs to another user
ExistenceBeforeOwnership(found, ownerOf(_), userID, status) ==
    /\ status = 404 <=> found = {}
    /\ status = 403 <=> (found # {} /\ \A x \in found : ownerOf(x) # userID)

OwnerOf(x) == x.owner_id

\* C27 as stated: across every step that answers an update or delete of a post
\* or comment, or a mark-read or mark-unread of a notification, the answer is
\* 404 exactly when the resource is not stored and 403 exactly when it is stored
\* and owned by another user.
C27_NotFoundIffMissing ==
    [][/\ contentResp'.op \in MutationOps /\ contentResp' # contentResp =>
            ExistenceBeforeOwnership(NamedByContentRequest, OwnerOf,
                                     contentResp'.userID, contentResp'.status)
       /\ notifResp'.op \in {"markRead", "markUnread"} /\ notifResp' # notifResp =>
            ExistenceBeforeOwnership(NamedByNotifRequest, OwnerOf,
                                     notifResp'.userID, notifResp'.status)]_vars

\* C27, amended: the same, except for an update of a post with no headline, which
\* is answered 422 Validation before the post is looked up, whether it is stored
\* or not.
C27_NotFoundIffMissingGivenHeadline ==
    [][/\ contentResp'.op \in MutationOps /\ contentResp' # contentResp =>
            IF contentResp'.op = "updatePost"
               /\ contentResp'.message = "headline is required"
            THEN contentResp'.status = 422 /\ RecordsUnchanged
            ELSE ExistenceBeforeOwnership(NamedByContentRequest, OwnerOf,
                                          contentResp'.userID, contentResp'.status)
       /\ notifResp'.op \in {"markRead", "markUnread"} /\ notifResp' # notifResp =>
            ExistenceBeforeOwnership(NamedByNotifRequest, OwnerOf,
                                     notifResp'.userID, notifResp'.status)]_vars

\* a user has asked to mark another user's stored notification and was answered
\* 403, after a comment that is not stored was asked to be deleted and the post
\* of another user was asked to be updated
C27_Witness ==
    /\ notifResp.op \in {"markRead", "markUnread"} /\ notifResp.status = 403
    /\ \E n \in NotificationGetByID(notifications, notifResp.id) :
          n.owner_id # notifResp.userID
    /\ \E x \in posts : x.status
    /\ \E id \in ContentCommentIDs : CommentGetByID(comments, id) = {}

-----------------------------------------------------------------------------
(* What creating a comment or a reply answers and stores *)

\* the step adds exactly one comment row, owned by userID, on postID, under
\* parentID, with the text given and the edited flag false
OneCommentAdded(userID, postID, parentID, text) ==
    \E c \in comments' \ comments :
        /\ comments' = comments \cup {c}
        /\ c.owner_id = userID /\ c.post_id = postID
        /\ c.parent_comment_id = parentID
        /\ c.text = text /\ c.status = FALSE

\* C28: across every step, a request to comment on a stored post, or to reply
\* to a stored comment, with a text is answered 201 and adds exactly one comment
\* row owned by the caller on that post with the edited flag false; with a post
\* or parent that is not stored it is answered 404, with an empty text 422, and
\* then no row is added.
C28_CreateCommentAddsOneRow ==
    [][\A u \in Actors, t \in Contents, b \in BOOLEAN :
          /\ \A id \in ContentPostIDs :
                HandleCreateCommentOnPost(u, id, t, b) =>
                   IF PostGetByID(posts, id) = {}
                   THEN contentResp'.status = 404 /\ comments' = comments
                   ELSE IF t = ""
                   THEN contentResp'.status = 422 /\ comments' = comments
                   ELSE contentResp'.status = 201 /\ OneCommentAdded(u, id, 0, t)
          /\ \A id \in ContentCommentIDs :
                HandleCreateReplyToComment(u, id, t, b) =>
                   IF CommentGetByID(comments, id) = {}
                   THEN contentResp'.status = 404 /\ comments' = comments
                   ELSE IF t = ""
                   THEN contentResp'.status = 422 /\ comments' = comments
                   ELSE /\ contentResp'.status = 201
                        /\ \E parent \in CommentGetByID(comments, id) :
                              OneCommentAdded(u, parent.post_id, id, t)]_vars

-----------------------------------------------------------------------------
(* What a refused registration leaves behind *)

\* C29: across every step in which a registration is answered with an error,
\* the users table is what it was, so the request's username and email can be
\* registered afterwards if they could before.
C29_FailedRegistrationStoresNothing ==
    [][\A req \in RegisterRequests, tokenStored \in BOOLEAN :
          (HandleRegisterUnder(req, tokenStored) /\ authResp'.status >= 400) =>
              users' = users]_vars

-----------------------------------------------------------------------------
(* The subject claim of a stored token *)

\* the decimal text s is that of an integer greater than zero
PositiveSubject(s) == ParseInt(s).ok /\ ParseInt(s).val > 0

-----------------------------------------------------------------------------
(* What GET /users/{user_id} tells one user about another *)

\* the password hashes a users row may hold
PasswordHashes ==
    {GenerateFromPassword(GoodPassword), GenerateFromPassword(OtherPassword)}

\* the users table with the password of user id replaced by hash
WithPassword(us, id, hash) ==
    {IF u.user_id = id THEN [u EXCEPT !.password = hash] ELSE u : u \in us}

\* C22: across every step in which GET /users/{user_id} is answered 200 to a
\* caller other than that user, the body is the one the handler writes in the
\* state that differs only in that user's password hash, whatever that hash is.
C22_ProfileHidesPasswordHash ==
    [][\A h \in SessionHeaders, s \in RequestedUserIDs :
          (/\ HandleGetAccount(h, s)
           /\ authResp'.status = 200
           /\ authResp'.userID # ParseInt(s).val) =>
              \A hash \in PasswordHashes :
                  authResp'.body =
                     GetAccountBody(WithPassword(users, ParseInt(s).val, hash),
                                    ParseInt(s).val)]_vars

-----------------------------------------------------------------------------
(* What the notification listings return *)

\* list holds, newest first, exactly those rows of matching that have at least
\* offset and fewer than offset + limit rows of matching above them
PageOf(list, matching, limit, offset) ==
    /\ \A i \in 1..Len(list) : list[i] \in matching
    /\ \A i \in 1..Len(list), j \in 1..Len(list) :
          i < j => list[i].notification_id > list[j].notification_id
    /\ \A n \in matching :
          LET above == Cardinality({o \in matching :
                                       o.notification_id > n.notification_id})
          IN  (\E i \in 1..Len(list) : list[i] = n) <=>
                  (offset <= above /\ above < offset + limit)

\* C23: across every step that answers a listing with limit and offset not
\* negative, the list holds only the caller's notifications (of the status asked
\* for, when one is), newest first, without the first offset of them and at most
\* limit long, and no notification is changed.
C23_ListingsPageOwnersRows ==
    [][\A u \in Actors, l \in RequestedLimits, o \in RequestedOffsets :
          /\ (HandleGetAllUserNotifications(u, l, o) /\ l >= 0 /\ o >= 0) =>
                /\ notifResp'.status = 200
                /\ PageOf(notifResp'.list, {n \in notifications : n.owner_id = u}, l, o)
                /\ Len(notifResp'.list) <= l
                /\ notifications' = notifications
          /\ \A st \in BOOLEAN :
                ((IF st THEN HandleGetAllReadNotifications(u, l, o)
                        ELSE HandleGetAllUnreadNotifications(u, l, o))
                 /\ l >= 0 /\ o >= 0) =>
                /\ notifResp'.status = 200
                /\ PageOf(notifResp'.list,
                          {n \in notifications : n.owner_id = u /\ n.status = st}, l, o)
                /\ Len(notifResp'.list) <= l
                /\ notifications' = notifications]_vars

\* a user with two notifications has asked for a page of one that is not the
\* first: the list holds the older notification only
C23_Witness ==
    /\ notifResp.op = "listAll" /\ notifResp.status = 200
    /\ Len(notifResp.list) = 1
    /\ \E n \in notifications :
          /\ n.owner_id = notifResp.userID
          /\ n.notification_id > notifResp.list[1].notification_id

-----------------------------------------------------------------------------
(* Two updates of one comment at once *)

\* C30: in every reachable state, when a request that changed only the text and
\* a request that changed only the image of the same comment have both been
\* answered 200, the comment has the new text and the new image.
C30_ConcurrentUpdatesKeepBoth ==
    \A v \in UpdateWorkers, w \in UpdateWorkers :
        (/\ updateWorkers[v].pc = "done" /\ updateWorkers[v].status = 200
         /\ updateWorkers[w].pc = "done" /\ updateWorkers[w].status = 200
         /\ updateWorkers[v].commentID = updateWorkers[w].commentID
         /\ updateWorkers[v].req.Text # "" /\ updateWorkers[v].req.Image = NilImage
         /\ updateWorkers[w].req.Text = "" /\ updateWorkers[w].req.Image # NilImage)
        => \A c \in CommentGetByID(comments, updateWorkers[v].commentID) :
              /\ c.text = updateWorkers[v].req.Text
              /\ c.image = updateWorkers[w].req.Image

====
